---- MODULE Spec2Model ----
(***************************************************************************)
(* A model of go-systemd: socket activation (activation/activation.go),    *)
(* the sd_notify helpers (notify*.go) and the systemd-resolved adapter     *)
(* (resolved/resolver.go, resolved/dbus.go).                               *)
(*                                                                         *)
(* Strings that the code parses are modelled at the level the parser       *)
(* looks at them: an address is a sequence of tokens <<host, ":", port>>,  *)
(* an integer variable is its decimal text, LISTEN_FDNAMES and DNS names   *)
(* are sequences of one-character strings.                                 *)
(***************************************************************************)
EXTENDS Integers, Sequences, FiniteSets, TLC

VARIABLES
    \* ---- activation ----
    pid,          \* os.Getpid()
    startEnv,     \* the LISTEN_* variables as the service manager set them
    env,          \* the three LISTEN_* environment variables
    phase,        \* "start" before package init, "ready" after, "panic" if init panicked
    initErr,      \* error returned by activationListeners ("" is nil)
    listeners,    \* the package variable listeners (activation.go:19)
    files,        \* the *os.File handles getFiles created, with their final state
    orphans,      \* listeners FileListener created that are not in the table
    call,         \* per caller: the Listen invocation in progress or finished
    \* ---- notify ----
    variant,      \* which generation of the notify package is linked in
    notifyEnv,    \* NOTIFY_SOCKET
    notifyPhase,  \* "start" before package init, "ready" after
    socket,       \* the package variable socket / notifySocket
    lastNotify,   \* what the last package-level notify call did
    \* ---- resolver ----
    res,          \* what the last resolver operation did
    resolver,     \* the Resolver in use: which connection r.conn is, and its state
    \* ---- watchdog ----
    wdVariant,    \* which generation of the watchdog controller is linked in
    watchdogEnv,  \* WATCHDOG_USEC and WATCHDOG_PID
    wd,           \* the controller New returned, and what its last method gave
    \* ---- journald slog handler ----
    logVariant,   \* which generation of NewHandler built the handler
    logged        \* the last attribute handed to ReplaceAttr, and the outcome

actVars == <<pid, startEnv, env, phase, initErr, listeners, files, orphans, call>>
notVars == <<variant, notifyEnv, notifyPhase, socket, lastNotify>>
resVars == <<res, resolver>>
wdVars == <<wdVariant, watchdogEnv, wd>>
logVars == <<logVariant, logged>>
vars == <<pid, startEnv, env, phase, initErr, listeners, files, orphans, call,
          variant, notifyEnv, notifyPhase, socket, lastNotify, res, resolver,
          wdVariant, watchdogEnv, wd, logVariant, logged>>

(***************************************************************************)
(* Bounds                                                                  *)
(***************************************************************************)
MaxFds == 2
MaxRecords == 2
MaxNameLen == 2
MaxOptions == 2

Pids == {1, 2}
Callers == {"c1", "c2"}

(***************************************************************************)
(* Activation: environment                                                 *)
(***************************************************************************)
listenFdsStart == 3

NoErr == ""

EnvKeys == {"LISTEN_PID", "LISTEN_FDS", "LISTEN_FDNAMES"}

\* The value os.Getenv gives for a variable that is not set.
EmptyVal(k) == IF k = "LISTEN_FDNAMES" THEN <<>> ELSE ""

LookupEnv(e, k) == e[k].set

Getenv(e, k) == IF e[k].set THEN e[k].val ELSE EmptyVal(k)

\* os.Unsetenv with a valid key cannot fail.
Unsetenv(e, k) == [e EXCEPT ![k] = [set |-> FALSE, val |-> EmptyVal(k)]]

\* strconv.Atoi on the decimal texts the model uses.
AtoiRange == (0 - 1)..(MaxFds + 2)

Atoi(s) ==
    IF \E n \in AtoiRange : ToString(n) = s
    THEN [ok |-> TRUE, n |-> CHOOSE n \in AtoiRange : ToString(n) = s]
    ELSE [ok |-> FALSE, n |-> 0]

Itoa(n) == ToString(n)

\* strings.Split(s, ":") on a sequence of characters.
RECURSIVE SplitFrom(_, _, _)
SplitFrom(s, i, cur) ==
    IF i > Len(s) THEN <<cur>>
    ELSE IF s[i] = ":" THEN <<cur>> \o SplitFrom(s, i + 1, "")
    ELSE SplitFrom(s, i + 1, cur \o s[i])

Split(s) == SplitFrom(s, 1, "")

checkEnv(e) ==
    IF ~LookupEnv(e, "LISTEN_PID") THEN "LISTEN_PID not set"
    ELSE IF ~LookupEnv(e, "LISTEN_FDS") THEN "LISTEN_FDS not set"
    ELSE NoErr

\* Faulty variant of PidMismatch: the process id is not compared.
PidMismatchSkipped(listenPid, p) == FALSE

\* listenPid != os.Getpid()
PidMismatch(listenPid, p) == listenPid # p

\* Faulty variant of FdRange: the loop stops one descriptor early.
FdRangeShort(listenFds) == listenFdsStart .. (listenFdsStart + listenFds - 2)

\* for fd := listenFdsStart; fd < listenFdsStart+listenFds; fd++
FdRange(listenFds) == listenFdsStart .. (listenFdsStart + listenFds - 1)

\* Faulty variant of FileName: LISTEN_FDNAMES is not looked at.
FileNameDefault(listenFdNames, hasNames, fd) == "LISTEN_FD_" \o Itoa(fd)

\* The name getFiles gives the descriptor fd (lines 98-104).
FileName(listenFdNames, hasNames, fd) ==
    LET offset == fd - listenFdsStart IN
    IF hasNames /\ offset < Len(listenFdNames) /\ Len(listenFdNames[offset + 1]) > 0
    THEN listenFdNames[offset + 1]
    ELSE "LISTEN_FD_" \o Itoa(fd)

GetFilesErr(msg, e) ==
    [err |-> msg, panic |-> FALSE, files |-> <<>>, env |-> e]

getFiles(e, p) ==
    IF checkEnv(e) # NoErr THEN GetFilesErr(checkEnv(e), e)
    ELSE
    LET listenPid == Atoi(Getenv(e, "LISTEN_PID")) IN
    IF ~listenPid.ok THEN GetFilesErr("failed to parse LISTEN_PID as int", e)
    ELSE IF PidMismatch(listenPid.n, p) THEN GetFilesErr("bad pid", e)
    ELSE
    LET listenFds == Atoi(Getenv(e, "LISTEN_FDS")) IN
    IF ~listenFds.ok THEN GetFilesErr("failed to parse LISTEN_FDS as int", e)
    ELSE
    LET hasNames == LookupEnv(e, "LISTEN_FDS")
        listenFdNames == IF hasNames THEN Split(Getenv(e, "LISTEN_FDNAMES")) ELSE <<>>
        e1 == IF hasNames THEN Unsetenv(e, "LISTEN_FDNAMES") ELSE e
        e2 == Unsetenv(e1, "LISTEN_FDS")
        e3 == Unsetenv(e2, "LISTEN_FDNAMES")
    IN
    \* make([]*os.File, 0, listenFds) panics on a negative capacity
    IF listenFds.n < 0
    THEN [err |-> NoErr, panic |-> TRUE, files |-> <<>>, env |-> e3]
    ELSE [err |-> NoErr, panic |-> FALSE, env |-> e3,
          files |-> [i \in 1..Cardinality(FdRange(listenFds.n)) |->
                        [fd |-> listenFdsStart + i - 1,
                         name |-> FileName(listenFdNames, hasNames,
                                           listenFdsStart + i - 1)]]]

(***************************************************************************)
(* Activation: wrapping the descriptors                                    *)
(***************************************************************************)
Hosts == {"h1", "h2"}
Ports == {"80", "443"}

\* What net.Listener.Addr().String() gives: host:port for a TCP listener,
\* the socket path for a unix listener.
TcpAddrs == {<<h, ":", p>> : h \in Hosts, p \in Ports}
UnixAddrs == {<<"/run/app.sock">>}
NotSocket == <<"not a socket">>

\* What a descriptor inherited from the service manager can be.
SockKinds == TcpAddrs \cup UnixAddrs \cup {NotSocket}

NoListener == [fd |-> 0, addr |-> <<>>]

Range(s) == {s[i] : i \in 1..Len(s)}

FileStates(fs, closedBelow, failedAt) ==
    [j \in 1..Len(fs) |->
        [fd |-> fs[j].fd, name |-> fs[j].name,
         state |-> IF j < closedBelow THEN "closed"
                   ELSE IF j = failedAt THEN "closeFailed"
                   ELSE "open"]]

\* The loop of activationListeners from file i on; acc holds the listeners
\* stored so far. socks is what each descriptor is, closeOK whether
\* f.Close() succeeds on it.
RECURSIVE wrapFrom(_, _, _, _, _)
wrapFrom(fs, i, acc, socks, closeOK) ==
    IF i > Len(fs)
    THEN [err |-> NoErr, listeners |-> acc,
          files |-> FileStates(fs, Len(fs) + 1, 0), orphans |-> {}]
    ELSE IF socks[fs[i].fd] = NotSocket
    THEN [err |-> "failed to init new file listener", listeners |-> <<>>,
          files |-> FileStates(fs, i, 0), orphans |-> Range(acc)]
    ELSE LET listener == [fd |-> fs[i].fd, addr |-> socks[fs[i].fd]] IN
         IF ~closeOK[fs[i].fd]
         THEN [err |-> "failed to close file", listeners |-> <<>>,
               files |-> FileStates(fs, i, i),
               orphans |-> Range(acc) \cup {listener}]
         ELSE wrapFrom(fs, i + 1, Append(acc, listener), socks, closeOK)

activationListeners(gf, socks, closeOK) ==
    IF gf.err # NoErr
    THEN [err |-> gf.err, listeners |-> <<>>, files |-> <<>>, orphans |-> {}]
    ELSE wrapFrom(gf.files, 1, <<>>, socks, closeOK)

FileFds(gf) == {gf.files[i].fd : i \in 1..Len(gf.files)}

IdleCall == [pc |-> "idle", addr |-> <<>>, port |-> "", idx |-> 0,
             kind |-> "none", l |-> NoListener]

\* func init(): builds the table once; an error is logged, not fatal.
ActivationInit ==
    /\ phase = "start"
    /\ LET gf == getFiles(env, pid) IN
       IF gf.panic
       THEN /\ phase' = "panic"
            /\ env' = gf.env
            /\ UNCHANGED <<initErr, listeners, files, orphans>>
       ELSE \E socks \in [FileFds(gf) -> SockKinds],
               closeOK \in [FileFds(gf) -> BOOLEAN] :
              LET al == activationListeners(gf, socks, closeOK) IN
              /\ phase' = "ready"
              /\ env' = gf.env
              /\ initErr' = al.err
              /\ listeners' = al.listeners
              /\ files' = al.files
              /\ orphans' = al.orphans
    /\ UNCHANGED <<pid, startEnv, call, notVars, resVars, wdVars, logVars>>

(***************************************************************************)
(* Activation: Listen                                                      *)
(***************************************************************************)
\* net.SplitHostPort on a token sequence: it wants host, ":", port.
SplitHostPort(a) ==
    IF Len(a) = 3 /\ a[2] = ":"
    THEN [ok |-> TRUE, host |-> a[1], port |-> a[3]]
    ELSE [ok |-> FALSE, host |-> "", port |-> ""]

\* Addresses a caller passes to Listen: well-formed ones and one without port.
CallAddrs == TcpAddrs \cup {<<"h1">>}

\* Faulty variant of ScanEntry: the whole address is compared, host included.
ScanEntryWholeAddr(l, addr, port) ==
    IF ~SplitHostPort(l.addr).ok THEN "parseerr"
    ELSE IF l.addr = addr THEN "found"
    ELSE "next"

\* One iteration of the loop of Listen (lines 34-42) on table entry l.
ScanEntry(l, addr, port) ==
    IF ~SplitHostPort(l.addr).ok THEN "parseerr"
    ELSE IF port = SplitHostPort(l.addr).port THEN "found"
    ELSE "next"

\* The loop of Listen from table index i on, run without interruption.
RECURSIVE ListenFrom(_, _, _, _)
ListenFrom(ls, addr, port, i) ==
    IF i > Len(ls) THEN [kind |-> "notfound", l |-> NoListener]
    ELSE LET r == ScanEntry(ls[i], addr, port) IN
         IF r = "next" THEN ListenFrom(ls, addr, port, i + 1)
         ELSE IF r = "found" THEN [kind |-> "found", l |-> ls[i]]
         ELSE [kind |-> "parseerr", l |-> ls[i]]

\* Listen(addr) run alone against table ls.
Listen(ls, addr) ==
    IF ~SplitHostPort(addr).ok THEN [kind |-> "badaddr", l |-> NoListener]
    ELSE ListenFrom(ls, addr, SplitHostPort(addr).port, 1)

\* A caller enters Listen: the address is parsed (lines 30-33).
ListenCall(c, addr) ==
    /\ phase = "ready"
    /\ call[c].pc # "scan"
    /\ call' = [call EXCEPT ![c] =
          IF ~SplitHostPort(addr).ok
          THEN [pc |-> "done", addr |-> addr, port |-> "", idx |-> 0,
                kind |-> "badaddr", l |-> NoListener]
          ELSE [pc |-> "scan", addr |-> addr, port |-> SplitHostPort(addr).port,
                idx |-> 1, kind |-> "none", l |-> NoListener]]
    /\ UNCHANGED <<pid, startEnv, env, phase, initErr, listeners, files, orphans, notVars, resVars, wdVars, logVars>>

\* Faulty variant of ListenScan: the listener handed out leaves the table.
ListenScanTake(c) ==
    /\ phase = "ready"
    /\ call[c].pc = "scan"
    /\ LET i == call[c].idx IN
       IF i > Len(listeners)
       THEN /\ call' = [call EXCEPT ![c].pc = "done", ![c].kind = "notfound"]
            /\ UNCHANGED listeners
       ELSE LET r == ScanEntry(listeners[i], call[c].addr, call[c].port) IN
            IF r = "next"
            THEN /\ call' = [call EXCEPT ![c].idx = i + 1]
                 /\ UNCHANGED listeners
            ELSE /\ call' = [call EXCEPT ![c].pc = "done", ![c].kind = r,
                                         ![c].l = listeners[i]]
                 /\ listeners' = IF r = "found"
                                 THEN SubSeq(listeners, 1, i - 1)
                                      \o SubSeq(listeners, i + 1, Len(listeners))
                                 ELSE listeners
    /\ UNCHANGED <<pid, startEnv, env, phase, initErr, files, orphans, notVars, resVars, wdVars, logVars>>

\* A caller runs one iteration of the loop of Listen, or leaves it (line 43).
ListenScan(c) ==
    /\ phase = "ready"
    /\ call[c].pc = "scan"
    /\ LET i == call[c].idx IN
       IF i > Len(listeners)
       THEN call' = [call EXCEPT ![c].pc = "done", ![c].kind = "notfound"]
       ELSE LET r == ScanEntry(listeners[i], call[c].addr, call[c].port) IN
            IF r = "next"
            THEN call' = [call EXCEPT ![c].idx = i + 1]
            ELSE call' = [call EXCEPT ![c].pc = "done", ![c].kind = r,
                                      ![c].l = listeners[i]]
    /\ UNCHANGED <<pid, startEnv, env, phase, initErr, listeners, files, orphans, notVars, resVars, wdVars, logVars>>

(***************************************************************************)
(* Activation: the system                                                  *)
(***************************************************************************)
PidTexts == {Itoa(p) : p \in Pids} \cup {"", "x"}
FdsTexts == {Itoa(n) : n \in (0 - 1)..MaxFds} \cup {"", "x"}
FdNamesTexts == {<<>>, <<"a">>, <<":", "b">>, <<"a", ":", "b">>}

EnvVar(vals, k) ==
    {[set |-> TRUE, val |-> v] : v \in vals} \cup {[set |-> FALSE, val |-> EmptyVal(k)]}

EnvInputs ==
    [LISTEN_PID : EnvVar(PidTexts, "LISTEN_PID"),
     LISTEN_FDS : EnvVar(FdsTexts, "LISTEN_FDS"),
     LISTEN_FDNAMES : EnvVar(FdNamesTexts, "LISTEN_FDNAMES")]

ActNext ==
    \/ ActivationInit
    \/ \E c \in Callers, addr \in CallAddrs : ListenCall(c, addr)
    \/ \E c \in Callers : ListenScan(c)

(***************************************************************************)
(* Notify: the package-level helpers, in the generations the repository    *)
(* holds:                                                                  *)
(*   "send"       notify.go:9-84      (var socket, func send)              *)
(*   "raw"        notify.go:188-217 with notify_helpers.go                 *)
(*                                    (var socket, func NotifyRaw)         *)
(*   "notifyraw"  notify_init.go with the file declaring notifySocket      *)
(***************************************************************************)
Variants == {"send", "raw", "notifyraw"}

NilSocket == [nil |-> TRUE, Name |-> "", Net |-> ""]

UnixAddr(name) == [nil |-> FALSE, Name |-> name, Net |-> "unixgram"]

NotifyPaths == {"/run/systemd/notify"}

NotifyGetenv(ns) == IF ns.set THEN ns.val ELSE ""

\* notify.go:11-20
initSend(ns) ==
    IF NotifyGetenv(ns) = "" THEN NilSocket ELSE UnixAddr(NotifyGetenv(ns))

\* notify.go:190-199
initRaw(ns) ==
    IF NotifyGetenv(ns) # "" THEN NilSocket ELSE UnixAddr(NotifyGetenv(ns))

\* notify_init.go:10-17
initNotifyRaw(ns) ==
    IF NotifyGetenv(ns) # "" THEN UnixAddr(NotifyGetenv(ns)) ELSE NilSocket

NotifyInit ==
    /\ notifyPhase = "start"
    /\ notifyPhase' = "ready"
    /\ socket' = CASE variant = "send" -> initSend(notifyEnv)
                   [] variant = "raw" -> initRaw(notifyEnv)
                   [] variant = "notifyraw" -> initNotifyRaw(notifyEnv)
    /\ UNCHANGED <<variant, notifyEnv, lastNotify, actVars, resVars, wdVars, logVars>>

\* IsNotifyEnabled: socket != nil (notifySocket != nil)
IsNotifyEnabled(sock) == ~sock.nil

\* What net.DialUnix and conn.Write can do for a socket address: connect
\* rejects an address without a path.
DialOutcomes(sock) ==
    IF sock.Name = "" THEN {"dialfail"} ELSE {"dialfail", "writefail", "sent"}

\* send / NotifyRaw: nothing is done without a socket address; otherwise
\* the socket is dialed and the state written.
NotifyRaw(sock, state, outcome) ==
    IF sock.nil
    THEN [state |-> state, dialed |-> FALSE, sent |-> FALSE, err |-> NoErr]
    ELSE IF outcome = "dialfail"
    THEN [state |-> state, dialed |-> TRUE, sent |-> FALSE,
          err |-> "can't open unix socket"]
    ELSE IF outcome = "writefail"
    THEN [state |-> state, dialed |-> TRUE, sent |-> FALSE,
          err |-> "can't write into the unix socket"]
    ELSE [state |-> state, dialed |-> TRUE, sent |-> TRUE, err |-> NoErr]

\* The state strings of NotifyReady, NotifyReloading, NotifyStopping,
\* NotifyStatus, NotifyErrNo, NotifyBusError, NotifyMainPID, NotifyWatchDog.
NotifyStates ==
    {"READY=1", "RELOADING=1", "STOPPING=1", "WATCHDOG=1"}
    \cup {"STATUS=" \o st : st \in {"ok", "busy"}}
    \cup {"ERRNO=" \o Itoa(n) : n \in Pids}
    \cup {"BUSERROR=" \o b : b \in {"org.example.Err"}}
    \cup {"MAINPID=" \o Itoa(p) : p \in Pids}

NoNotify == [state |-> "", dialed |-> FALSE, sent |-> FALSE, err |-> NoErr]

NotifyCall(state) ==
    /\ notifyPhase = "ready"
    /\ \E outcome \in DialOutcomes(socket) :
          lastNotify' = NotifyRaw(socket, state, outcome)
    /\ UNCHANGED <<variant, notifyEnv, notifyPhase, socket, actVars, resVars, wdVars, logVars>>

NotifyEnvInputs ==
    {[set |-> FALSE, val |-> ""], [set |-> TRUE, val |-> ""]}
    \cup {[set |-> TRUE, val |-> v] : v \in NotifyPaths}

NotNext ==
    \/ NotifyInit
    \/ \E state \in NotifyStates : NotifyCall(state)

(***************************************************************************)
(* Resolver: names                                                         *)
(***************************************************************************)
Letters == {"a", "b", "c", "m", "n", "s", "t", "x", "_"}
Digits == {"0", "1", "2", "3", "4", "5", "6", "7", "8", "9"}

\* The characters names are drawn from: a letter, a digit, the dash, the
\* dot and a byte that no DNS name may hold.
Chars == {"a", "1", "-", ".", "!"}

RECURSIVE SeqsUpTo(_, _)
SeqsUpTo(S, n) ==
    IF n = 0 THEN {<<>>}
    ELSE LET shorter == SeqsUpTo(S, n - 1) IN
         shorter \cup {Append(q, x) : q \in {r \in shorter : Len(r) = n - 1}, x \in S}

\* Internationalized names: "U+00E9" stands for the bytes of a letter
\* outside ASCII (e with acute accent).
IDNs == {<<"U+00E9">>, <<"U+00E9", ".", "a">>}

Names == SeqsUpTo(Chars, MaxNameLen) \cup IDNs

\* The hosts of the lookups that do not look into the name.
LookupHosts == {<<>>, <<"a">>, <<"a", ".">>}

\* The loop of isDomainName from index i on (resolver.go:269-298); the
\* result is what the function returns.
RECURSIVE isDomainNameFrom(_, _, _, _, _)
isDomainNameFrom(s, i, last, nonNumeric, partlen) ==
    IF i > Len(s)
    THEN IF last = "-" \/ partlen > 63 THEN FALSE ELSE nonNumeric
    ELSE LET c == s[i] IN
         IF c \in Letters THEN isDomainNameFrom(s, i + 1, c, TRUE, partlen + 1)
         ELSE IF c \in Digits THEN isDomainNameFrom(s, i + 1, c, nonNumeric, partlen + 1)
         ELSE IF c = "-"
         THEN IF last = "." THEN FALSE
              ELSE isDomainNameFrom(s, i + 1, c, TRUE, partlen + 1)
         ELSE IF c = "."
         THEN IF last = "." \/ last = "-" THEN FALSE
              ELSE IF partlen > 63 \/ partlen = 0 THEN FALSE
              ELSE isDomainNameFrom(s, i + 1, c, nonNumeric, 0)
         ELSE FALSE

isDomainName(s) ==
    LET l == Len(s) IN
    IF l = 0 \/ l > 254 \/ (l = 254 /\ s[l] # ".") THEN FALSE
    ELSE isDomainNameFrom(s, 1, ".", FALSE, 0)

\* Faulty variant of fullyQualified: a dot is appended to every name.
fullyQualifiedAlways(s) == Append(s, ".")

fullyQualified(s) ==
    IF Len(s) > 0 /\ s[Len(s)] = "." THEN s ELSE Append(s, ".")

(***************************************************************************)
(* Resolver: what the remote service answers                               *)
(***************************************************************************)
RemoteErrs == {NoErr, "remote call failed"}

\* net.IP as a sequence of bytes: two IPv4 addresses in 4-byte form and two
\* IPv6 addresses (2001:db8::1 and 2001:db8:0:1::2).
IPs ==
    {<<192, 0, 2, 1>>, <<192, 0, 2, 2>>,
     <<32, 1, 13, 184, 0, 0, 0, 0, 0, 0, 0, 0, 0, 0, 0, 1>>,
     <<32, 1, 13, 184, 0, 0, 0, 1, 0, 0, 0, 0, 0, 0, 0, 2>>}

NilIP == <<>>

\* net.IP.To4: the 4-byte form of an IPv4 address, nil for any other.
To4(ip) ==
    IF Len(ip) = 4 THEN ip
    ELSE IF /\ Len(ip) = 16
            /\ \A i \in 1..10 : ip[i] = 0
            /\ ip[11] = 255 /\ ip[12] = 255
    THEN SubSeq(ip, 13, 16)
    ELSE NilIP

HexDigits ==
    <<"0", "1", "2", "3", "4", "5", "6", "7", "8", "9", "a", "b", "c", "d", "e", "f">>

\* A number in lower-case hexadecimal without leading zeros.
RECURSIVE Hex(_)
Hex(n) ==
    IF n < 16 THEN HexDigits[n + 1]
    ELSE Hex(n \div 16) \o HexDigits[(n % 16) + 1]

\* The eight 16-bit groups of a 16-byte address.
Groups(ip) == [i \in 1..8 |-> ip[2 * i - 1] * 256 + ip[2 * i]]

\* The number of zero groups in a row from group i on.
RECURSIVE ZeroRun(_, _)
ZeroRun(g, i) ==
    IF i > 8 \/ g[i] # 0 THEN 0 ELSE 1 + ZeroRun(g, i + 1)

\* Where the longest run of two or more zero groups starts (the first of
\* the longest), 0 when there is none.
ZeroStart(g) ==
    LET runs == {i \in 1..8 : ZeroRun(g, i) >= 2} IN
    IF runs = {} THEN 0
    ELSE CHOOSE i \in runs :
            \A j \in runs : \/ ZeroRun(g, j) < ZeroRun(g, i)
                            \/ (ZeroRun(g, j) = ZeroRun(g, i) /\ i <= j)

\* The groups from i on in text, the run of zeros at zs written "::".
RECURSIVE String6From(_, _, _)
String6From(g, i, zs) ==
    IF i > 8 THEN ""
    ELSE IF i = zs
    THEN LET ze == zs + ZeroRun(g, zs) IN
         IF ze > 8 THEN "::"
         ELSE "::" \o Hex(g[ze]) \o String6From(g, ze + 1, zs)
    ELSE (IF i > 1 THEN ":" ELSE "") \o Hex(g[i]) \o String6From(g, i + 1, zs)

\* net.IP.String(): dotted decimal for an IPv4 address, the compressed
\* colon form for an IPv6 address.
IPString(ip) ==
    IF Len(ip) = 0 THEN "<nil>"
    ELSE IF Len(ip) # 4 /\ Len(ip) # 16 THEN "?"
    ELSE IF To4(ip) # NilIP
    THEN LET p4 == To4(ip) IN
         ToString(p4[1]) \o "." \o ToString(p4[2]) \o "." \o ToString(p4[3])
             \o "." \o ToString(p4[4])
    ELSE String6From(Groups(ip), 1, ZeroStart(Groups(ip)))

\* ResourceRecord.Data: wire is the record type the data parses as, "bad"
\* when dns.UnpackRR rejects it; labels are the labels of the domain name in
\* the record data (the exchange, the name server, the target).
RRs ==
    {[wire |-> "MX", pref |-> 10, labels |-> <<<<"m", "1">>>>, txt |-> <<>>],
     [wire |-> "MX", pref |-> 20, labels |-> <<<<"m", "2">>>>, txt |-> <<>>],
     [wire |-> "NS", pref |-> 0, labels |-> <<<<"n", "1">>>>, txt |-> <<>>],
     [wire |-> "CNAME", pref |-> 0, labels |-> <<<<"c", "1">>, <<"a">>>>, txt |-> <<>>],
     [wire |-> "SRV", pref |-> 0, labels |-> <<<<"s", "1">>>>, txt |-> <<>>],
     [wire |-> "TXT", pref |-> 0, labels |-> <<>>, txt |-> <<"t1", "t2">>],
     [wire |-> "bad", pref |-> 0, labels |-> <<>>, txt |-> <<>>]}

RRTypes == {"CNAME", "MX", "NS", "SRV", "TXT"}

\* The domain name dns.UnpackRR builds from the labels of the record data:
\* every label followed by a dot, the root alone as ".".
RECURSIVE UnpackDomainName(_)
UnpackDomainName(labels) ==
    IF labels = <<>> THEN <<".">>
    ELSE IF Len(labels) = 1 THEN Head(labels) \o <<".">>
    ELSE Head(labels) \o <<".">> \o UnpackDomainName(Tail(labels))

\* SRVRecord (dbus.go:253-260), without the resolved addresses.
SRVRecords ==
    {[Priority |-> 10, Weight |-> 5, Port |-> 5269, Hostname |-> <<"s", "1">>],
     [Priority |-> 20, Weight |-> 5, Port |-> 5269, Hostname |-> <<"s", "2", ".">>],
     [Priority |-> 10, Weight |-> 9, Port |-> 5270, Hostname |-> <<"s", "3">>]}

\* Name.Hostname as ResolveAddress gives it, with and without a final dot.
Hostnames == {<<"a">>, <<"a", ".">>, <<"b", ".", "c">>}

HostnameAnswers == [err : RemoteErrs, addresses : SeqsUpTo(IPs, MaxRecords)]
AddressAnswers == [err : RemoteErrs, names : SeqsUpTo(Hostnames, MaxRecords)]
RecordAnswers == [err : RemoteErrs, records : SeqsUpTo(RRs, MaxRecords)]
ServiceAnswers ==
    [err : RemoteErrs, srvData : SeqsUpTo(SRVRecords, MaxRecords),
     canonicalName : {<<"s", ".">>}]

\* The connection a Resolver holds (resolver.go:18-21): the one NewConn
\* opened on the system bus or the one WithConn was given, open until it
\* is closed.
ResolverConns == {"system", "custom"}

ErrClosed == "dbus: connection closed by user"

\* What a method call on the connection can end with: on an open
\* connection whatever the service answers, on a closed one the
\* transport's error.
OnConn(r, answers) ==
    IF r.open THEN answers
    ELSE {[a EXCEPT !.err = ErrClosed] : a \in {b \in answers : b.err # NoErr}}

CloseErrs == {NoErr, "close failed"}

\* Faulty variant of Close: the connection stays open.
CloseNothing(r) == r

\* Resolver.Close (resolver.go:71-73), Conn.Close (dbus.go:57-59).
Close(r) == [r EXCEPT !.open = FALSE]

\* context.Context as the calls see it: still live, or cancelled before
\* the call was issued.
Contexts == {"live", "cancelled"}

\* Faulty variant of Call: a cancelled context is not looked at.
CallUncancelled(ctx, ans) == ans

\* Conn.Call (dbus.go:52-54): the method call on the bus under ctx. With a
\* context that is already cancelled the call ends with the context's
\* error and no reply, otherwise with what the service answers.
Call(ctx, ans) ==
    IF ctx = "cancelled" THEN [ans EXCEPT !.err = "context canceled"] ELSE ans

\* The generations of Conn: "dbus" issues every method on the bus (dbus.go),
\* "stub" leaves ResolveRecord, ResolveService, RegisterService and
\* UnregisterService unimplemented (resolver.go:450-474, 585-599).
Conns == {"dbus", "stub"}

errNotSupported == "method not supported yet"

\* Conn.ResolveHostname, ResolveAddress, ResolveRecord, ResolveService of
\* conn c under ctx, ans being what the service answers: one call on the
\* bus, the reply stored as it came, a failed call giving no data; n is the
\* number of calls issued on the bus.
ResolveHostname(ctx, ans) ==
    LET reply == Call(ctx, ans) IN
    IF reply.err # NoErr THEN [err |-> reply.err, addresses |-> <<>>, n |-> 1]
    ELSE [err |-> NoErr, addresses |-> reply.addresses, n |-> 1]

ResolveAddress(ctx, ans) ==
    LET reply == Call(ctx, ans) IN
    IF reply.err # NoErr THEN [err |-> reply.err, names |-> <<>>, n |-> 1]
    ELSE [err |-> NoErr, names |-> reply.names, n |-> 1]

\* Faulty variant of ResolveRecord: every generation issues the call.
ResolveRecordIssued(c, ctx, ans) ==
    LET reply == Call(ctx, ans) IN
    IF reply.err # NoErr THEN [err |-> reply.err, records |-> <<>>, n |-> 1]
    ELSE [err |-> NoErr, records |-> reply.records, n |-> 1]

ResolveRecord(c, ctx, ans) ==
    IF c = "stub" THEN [err |-> errNotSupported, records |-> <<>>, n |-> 0]
    ELSE LET reply == Call(ctx, ans) IN
         IF reply.err # NoErr THEN [err |-> reply.err, records |-> <<>>, n |-> 1]
         ELSE [err |-> NoErr, records |-> reply.records, n |-> 1]

ResolveService(c, ctx, ans) ==
    IF c = "stub"
    THEN [err |-> errNotSupported, srvData |-> <<>>, canonicalName |-> <<>>, n |-> 0]
    ELSE LET reply == Call(ctx, ans) IN
         IF reply.err # NoErr
         THEN [err |-> reply.err, srvData |-> <<>>, canonicalName |-> <<>>, n |-> 1]
         ELSE [err |-> NoErr, srvData |-> reply.srvData,
               canonicalName |-> reply.canonicalName, n |-> 1]

SvcPaths == {<<"/", "s", "1">>}
RegisterAnswers == [err : RemoteErrs, svcPath : SvcPaths]
UnregisterAnswers == [err : RemoteErrs]

RegisterService(c, ctx, ans) ==
    IF c = "stub" THEN [err |-> errNotSupported, svcPath |-> <<>>, n |-> 0]
    ELSE LET reply == Call(ctx, ans) IN
         IF reply.err # NoErr THEN [err |-> reply.err, svcPath |-> <<>>, n |-> 1]
         ELSE [err |-> NoErr, svcPath |-> reply.svcPath, n |-> 1]

UnregisterService(c, ctx, ans) ==
    IF c = "stub" THEN [err |-> errNotSupported, n |-> 0]
    ELSE [err |-> Call(ctx, ans).err, n |-> 1]

\* ResourceRecord.Unpack and the typed decoders (dbus.go:151-237).
Unpack(r) == IF r.wire = "bad" THEN "malformed record data" ELSE NoErr

\* Faulty variant of Decode: the type of the record is not compared.
DecodeAnyType(r, rrtype) == Unpack(r)

Decode(r, rrtype) ==
    IF Unpack(r) # NoErr THEN Unpack(r)
    ELSE IF r.wire # rrtype THEN "not an " \o rrtype \o " record type"
    ELSE NoErr

(***************************************************************************)
(* Resolver: the lookups (resolver.go). Each takes its argument and the    *)
(* reply of the remote call, and returns what the caller gets together     *)
(* with the number of remote calls issued.                                 *)
(***************************************************************************)
IdleRes == [op |-> "idle", name |-> <<>>, err |-> NoErr, errName |-> <<>>,
            notFound |-> FALSE, val |-> <<>>, ncalls |-> 0, got |-> <<>>,
            decoded |-> 0, dialed |-> <<>>, ctx |-> "live", conn |-> "dbus",
            network |-> ""]

\* &net.DNSError{Err: "no such host", Name: name, IsNotFound: true}
\* n is the number of remote calls issued, got the data the service gave.
NoSuchHost(op, name, n) ==
    [IdleRes EXCEPT !.op = op, !.name = name, !.err = "no such host",
                    !.errName = name, !.notFound = TRUE, !.ncalls = n]

Failed(op, name, err, got) ==
    [IdleRes EXCEPT !.op = op, !.name = name, !.err = err, !.ncalls = 1, !.got = got]

Returned(op, name, val, got) ==
    [IdleRes EXCEPT !.op = op, !.name = name, !.val = val, !.ncalls = 1, !.got = got]

\* The result of a lookup that issued r.n calls on the bus.
Issued(r, result) == [result EXCEPT !.ncalls = r.n]

\* Faulty variant of FirstDecodeErr: a record that fails to decode is
\* passed over.
FirstDecodeErrNone(records, rrtype, i) == NoErr

\* The first decode error met in records, in order; NoErr when all decode.
RECURSIVE FirstDecodeErr(_, _, _)
FirstDecodeErr(records, rrtype, i) ==
    IF i > Len(records) THEN NoErr
    ELSE IF Decode(records[i], rrtype) # NoErr THEN Decode(records[i], rrtype)
    ELSE FirstDecodeErr(records, rrtype, i + 1)

\* How many records the loop of a lookup hands to the decoder: all of
\* them, or those up to the first that fails.
RECURSIVE DecodedFrom(_, _, _)
DecodedFrom(records, rrtype, i) ==
    IF i > Len(records) THEN 0
    ELSE IF Decode(records[i], rrtype) # NoErr THEN 1
    ELSE 1 + DecodedFrom(records, rrtype, i + 1)

\* Faulty variant of LookupHost: the last address of the answer is left out.
LookupHostShort(c, ctx, host, ans) ==
    IF host = <<>> THEN NoSuchHost("LookupHost", host, 0)
    ELSE LET r == ResolveHostname(ctx, ans) IN
         Issued(r,
         IF r.err # NoErr THEN Failed("LookupHost", host, r.err, r.addresses)
         ELSE Returned("LookupHost", host,
                       [i \in 1..(Len(r.addresses) - 1) |-> IPString(r.addresses[i])],
                       r.addresses))

LookupHost(c, ctx, host, ans) ==
    IF host = <<>> THEN NoSuchHost("LookupHost", host, 0)
    ELSE LET r == ResolveHostname(ctx, ans) IN
         Issued(r,
         IF r.err # NoErr THEN Failed("LookupHost", host, r.err, r.addresses)
         ELSE Returned("LookupHost", host,
                       [i \in 1..Len(r.addresses) |-> IPString(r.addresses[i])],
                       r.addresses))

\* The rest of LookupCNAME once the reply r is in (resolver.go:179-189).
CNAMEOf(host, r) ==
    IF r.err # NoErr THEN Failed("LookupCNAME", host, r.err, r.records)
    ELSE IF Len(r.records) = 0
    THEN [NoSuchHost("LookupCNAME", host, 1) EXCEPT !.got = r.records]
    ELSE IF Decode(r.records[1], "CNAME") # NoErr
    THEN [Failed("LookupCNAME", host, Decode(r.records[1], "CNAME"), r.records)
             EXCEPT !.decoded = 1]
    ELSE [Returned("LookupCNAME", host, UnpackDomainName(r.records[1].labels),
                   r.records) EXCEPT !.decoded = 1]

\* Faulty variant of LookupCNAME: the empty host is sent to the service.
LookupCNAMEUnchecked(c, ctx, host, ans) ==
    LET r == ResolveRecord(c, ctx, ans) IN Issued(r, CNAMEOf(host, r))

\* Faulty variant of LookupCNAME: a host without a CNAME record is its own
\* canonical name.
LookupCNAMEEcho(c, ctx, host, ans) ==
    IF host = <<>> THEN NoSuchHost("LookupCNAME", host, 0)
    ELSE LET r == ResolveRecord(c, ctx, ans) IN
         Issued(r,
         IF r.err = NoErr /\ Len(r.records) = 0
         THEN Returned("LookupCNAME", host, host, r.records)
         ELSE CNAMEOf(host, r))

LookupCNAME(c, ctx, host, ans) ==
    IF host = <<>> THEN NoSuchHost("LookupCNAME", host, 0)
    ELSE LET r == ResolveRecord(c, ctx, ans) IN Issued(r, CNAMEOf(host, r))

LookupMX(c, ctx, name, ans) ==
    IF ~isDomainName(name) THEN NoSuchHost("LookupMX", name, 0)
    ELSE LET r == ResolveRecord(c, ctx, ans) IN
         Issued(r,
         IF r.err # NoErr THEN Failed("LookupMX", name, r.err, r.records)
         ELSE IF FirstDecodeErr(r.records, "MX", 1) # NoErr
         THEN [Failed("LookupMX", name, FirstDecodeErr(r.records, "MX", 1), r.records)
                  EXCEPT !.decoded = DecodedFrom(r.records, "MX", 1)]
         ELSE [Returned("LookupMX", name,
                        [i \in 1..Len(r.records) |->
                            [Host |-> UnpackDomainName(r.records[i].labels),
                             Pref |-> r.records[i].pref]],
                        r.records)
                  EXCEPT !.decoded = DecodedFrom(r.records, "MX", 1)])

\* Faulty variant of LookupNS: a failed call is issued a second time.
LookupNSRetry(c, ctx, name, ans) ==
    IF ~isDomainName(name) THEN NoSuchHost("LookupNS", name, 0)
    ELSE LET r == ResolveRecord(c, ctx, ans) IN
         IF r.err # NoErr
         THEN [Failed("LookupNS", name, r.err, r.records) EXCEPT !.ncalls = r.n + r.n]
         ELSE Issued(r, Returned("LookupNS", name,
                        [i \in 1..Len(r.records) |->
                            [Host |-> UnpackDomainName(r.records[i].labels)]],
                        r.records))

LookupNS(c, ctx, name, ans) ==
    IF ~isDomainName(name) THEN NoSuchHost("LookupNS", name, 0)
    ELSE LET r == ResolveRecord(c, ctx, ans) IN
         Issued(r,
         IF r.err # NoErr THEN Failed("LookupNS", name, r.err, r.records)
         ELSE IF FirstDecodeErr(r.records, "NS", 1) # NoErr
         THEN [Failed("LookupNS", name, FirstDecodeErr(r.records, "NS", 1), r.records)
                  EXCEPT !.decoded = DecodedFrom(r.records, "NS", 1)]
         ELSE [Returned("LookupNS", name,
                        [i \in 1..Len(r.records) |->
                            [Host |-> UnpackDomainName(r.records[i].labels)]],
                        r.records)
                  EXCEPT !.decoded = DecodedFrom(r.records, "NS", 1)])

RECURSIVE TxtsFrom(_, _)
TxtsFrom(records, i) ==
    IF i > Len(records) THEN <<>>
    ELSE records[i].txt \o TxtsFrom(records, i + 1)

LookupTXT(c, ctx, name, ans) ==
    IF ~isDomainName(name) THEN NoSuchHost("LookupTXT", name, 0)
    ELSE LET r == ResolveRecord(c, ctx, ans) IN
         Issued(r,
         IF r.err # NoErr THEN Failed("LookupTXT", name, r.err, r.records)
         ELSE IF FirstDecodeErr(r.records, "TXT", 1) # NoErr
         THEN [Failed("LookupTXT", name, FirstDecodeErr(r.records, "TXT", 1), r.records)
                  EXCEPT !.decoded = DecodedFrom(r.records, "TXT", 1)]
         ELSE [Returned("LookupTXT", name, TxtsFrom(r.records, 1), r.records)
                  EXCEPT !.decoded = DecodedFrom(r.records, "TXT", 1)])

\* Stable insertion of x into the list sorted ascending by priority.
RECURSIVE InsertByPriority(_, _)
InsertByPriority(sorted, x) ==
    IF sorted = <<>> THEN <<x>>
    ELSE IF x.Priority < Head(sorted).Priority THEN <<x>> \o sorted
    ELSE <<Head(sorted)>> \o InsertByPriority(Tail(sorted), x)

RECURSIVE SortByPriority(_)
SortByPriority(srvs) ==
    IF srvs = <<>> THEN <<>>
    ELSE InsertByPriority(SortByPriority(SubSeq(srvs, 1, Len(srvs) - 1)),
                          srvs[Len(srvs)])

SRVsOf(srvData) ==
    [i \in 1..Len(srvData) |->
        [Target |-> fullyQualified(srvData[i].Hostname), Port |-> srvData[i].Port,
         Priority |-> srvData[i].Priority, Weight |-> srvData[i].Weight]]

\* Faulty variant of LookupSRV: the records are returned in answer order.
LookupSRVUnsorted(c, ctx, name, ans) ==
    LET r == ResolveService(c, ctx, ans) IN
    Issued(r,
    IF r.err # NoErr THEN Failed("LookupSRV", name, r.err, r.srvData)
    ELSE Returned("LookupSRV", name, SRVsOf(r.srvData), r.srvData))

\* LookupSRV: the service is resolved, the records are assembled and
\* sorted ascending by priority.
LookupSRV(c, ctx, name, ans) ==
    LET r == ResolveService(c, ctx, ans) IN
    Issued(r,
    IF r.err # NoErr THEN Failed("LookupSRV", name, r.err, r.srvData)
    ELSE Returned("LookupSRV", name, SortByPriority(SRVsOf(r.srvData)), r.srvData))

(***************************************************************************)
(* Resolver: reverse lookup                                                *)
(***************************************************************************)
\* The 16-bit groups the address texts are written with.
HexGroups == {0, 1, 2, 3512, 8193}

\* A decimal field of a dotted address: 0..255 without leading zeros.
DecByte(t) ==
    IF \E n \in 0..255 : ToString(n) = t
    THEN CHOOSE n \in 0..255 : ToString(n) = t
    ELSE 0 - 1

\* A hexadecimal group of a colon address.
HexGroup(t) ==
    IF \E n \in HexGroups : Hex(n) = t
    THEN CHOOSE n \in HexGroups : Hex(n) = t
    ELSE 0 - 1

\* Address texts are token sequences: fields and the separators between
\* them, <<"192", ".", "0", ".", "2", ".", "1">> or <<"2001", ":", "db8", "::", "1">>.
AddrTexts ==
    {<<"192", ".", "0", ".", "2", ".", "1">>,
     <<"256", ".", "0", ".", "2", ".", "1">>,
     <<"2001", ":", "db8", "::", "1">>,
     <<"::", "1">>,
     <<"2001", ":", "db8">>,
     <<"h1">>,
     <<>>}

\* The groups of a run group (":" group)*, <<0 - 1>> when it is not one.
RECURSIVE GroupRun(_)
GroupRun(toks) ==
    IF toks = <<>> THEN <<>>
    ELSE IF HexGroup(toks[1]) < 0 THEN <<0 - 1>>
    ELSE IF Len(toks) = 1 THEN <<HexGroup(toks[1])>>
    ELSE IF Len(toks) = 2 \/ toks[2] # ":" THEN <<0 - 1>>
    ELSE <<HexGroup(toks[1])>> \o GroupRun(SubSeq(toks, 3, Len(toks)))

Bytes16(groups) ==
    [i \in 1..16 |-> IF i % 2 = 1 THEN groups[(i + 1) \div 2] \div 256
                     ELSE groups[i \div 2] % 256]

\* net.ParseIP: the 16-byte form of the address the text denotes (an IPv4
\* address in its IPv4-in-IPv6 form), nil when the text is no address.
ParseIP(addr) ==
    IF /\ Len(addr) = 7
       /\ \A i \in {2, 4, 6} : addr[i] = "."
    THEN IF \A i \in {1, 3, 5, 7} : DecByte(addr[i]) >= 0
         THEN <<0, 0, 0, 0, 0, 0, 0, 0, 0, 0, 255, 255>>
                  \o [i \in 1..4 |-> DecByte(addr[2 * i - 1])]
         ELSE NilIP
    ELSE LET gaps == {i \in 1..Len(addr) : addr[i] = "::"} IN
         IF Cardinality(gaps) > 1 THEN NilIP
         ELSE IF gaps = {}
         THEN LET g == GroupRun(addr) IN
              IF Len(g) = 8 /\ \A i \in 1..8 : g[i] >= 0 THEN Bytes16(g) ELSE NilIP
         ELSE LET at == CHOOSE i \in gaps : TRUE
                  head == GroupRun(SubSeq(addr, 1, at - 1))
                  tail == GroupRun(SubSeq(addr, at + 1, Len(addr)))
              IN
              IF /\ \A i \in 1..Len(head) : head[i] >= 0
                 /\ \A i \in 1..Len(tail) : tail[i] >= 0
                 /\ Len(head) + Len(tail) <= 7
              THEN Bytes16(head \o [i \in 1..(8 - Len(head) - Len(tail)) |-> 0] \o tail)
              ELSE NilIP

LookupAddr(c, ctx, addr, ans) ==
    IF ParseIP(addr) = NilIP
    THEN [IdleRes EXCEPT !.op = "LookupAddr", !.name = addr,
                         !.err = "unrecognized address", !.errName = addr]
    ELSE LET r == ResolveAddress(ctx, ans) IN
         Issued(r,
         IF r.err # NoErr THEN Failed("LookupAddr", addr, r.err, r.names)
         ELSE Returned("LookupAddr", addr,
                       [i \in 1..Len(r.names) |-> fullyQualified(r.names[i])],
                       r.names))

(***************************************************************************)
(* Resolver: dialing, address lookup by family, construction, decoding     *)
(***************************************************************************)
\* The addresses passed to DialContext: host:port, and one without port.
DialAddrs == {<<"h1", ":", "80">>, <<"h2", ":", "443">>, <<"h1">>}

\* Faulty variant of DialAddressFrom: the first address is taken whatever
\* its family.
DialAddressFirst(addrs, i, address) ==
    IF i > Len(addrs) THEN address
    ELSE IF To4(addrs[i]) = NilIP
    THEN <<"[" \o IPString(addrs[i]) \o "]">>
    ELSE <<IPString(addrs[i])>>

\* The loop of DialContext (resolver.go:84-91) from index i on: address is
\* what the loop has assigned so far.
RECURSIVE DialAddressFrom(_, _, _)
DialAddressFrom(addrs, i, address) ==
    IF i > Len(addrs) THEN address
    ELSE IF To4(addrs[i]) = NilIP
    THEN <<"[" \o IPString(addrs[i]) \o "]">>
    ELSE DialAddressFrom(addrs, i + 1, <<IPString(addrs[i])>>)

\* Resolver.DialContext: dialOK says whether the dialer gets a connection.
DialContext(c, ctx, network, address, ans, dialOK) ==
    LET sp == SplitHostPort(address) IN
    IF ~sp.ok
    THEN [IdleRes EXCEPT !.op = "DialContext", !.name = address,
                         !.err = "missing port in address"]
    ELSE LET r == ResolveHostname(ctx, ans) IN
         Issued(r,
         IF r.err # NoErr THEN Failed("DialContext", address, r.err, r.addresses)
         ELSE LET target == DialAddressFrom(r.addresses, 1, address) \o <<":", sp.port>> IN
              IF dialOK
              THEN [Returned("DialContext", address, <<"conn">>, r.addresses)
                       EXCEPT !.dialed = target]
              ELSE [Failed("DialContext", address, "dial failed", r.addresses)
                       EXCEPT !.dialed = target])

Networks == {"ip", "ip4", "ip6", "tcp"}

\* Faulty variant of FamilyFilter: every address passes.
FamilyFilterNone(network, addresses) == addresses

\* The addresses of the family the network names, in answer order.
RECURSIVE FamilyFilter(_, _)
FamilyFilter(network, addresses) ==
    IF addresses = <<>> THEN <<>>
    ELSE LET ip == Head(addresses)
             keep == \/ network = "ip"
                     \/ network = "ip4" /\ Len(ip) = 4
                     \/ network = "ip6" /\ Len(ip) = 16 /\ To4(ip) = NilIP
         IN (IF keep THEN <<ip>> ELSE <<>>) \o FamilyFilter(network, Tail(addresses))

\* LookupIP: the network selects the family, any other network is refused;
\* the addresses of the answer that belong to the family are returned.
LookupIP(c, ctx, network, host, ans) ==
    IF network \notin {"ip", "ip4", "ip6"}
    THEN [IdleRes EXCEPT !.op = "LookupIP", !.name = host, !.err = "unknown network"]
    ELSE IF host = <<>> THEN NoSuchHost("LookupIP", host, 0)
    ELSE LET r == ResolveHostname(ctx, ans) IN
         Issued(r,
         IF r.err # NoErr THEN Failed("LookupIP", host, r.err, r.addresses)
         ELSE Returned("LookupIP", host, FamilyFilter(network, r.addresses),
                       r.addresses))

\* The options passed to NewResolver: WithConn and WithDialer, each with a
\* nil or a usable argument.
Options == [with : {"conn", "dialer"}, arg : {"nil", "custom"}]

NilResolver == [conn |-> "nil", dialer |-> "nil"]

\* WithConn(c)(r) and WithDialer(d)(r) (resolver.go:26-45).
ApplyOption(opt, r) ==
    IF opt.with = "conn"
    THEN IF opt.arg = "nil" THEN [err |-> "conn is nil", r |-> r]
         ELSE [err |-> NoErr, r |-> [r EXCEPT !.conn = "custom"]]
    ELSE IF opt.arg = "nil" THEN [err |-> "dialer is nil", r |-> r]
         ELSE [err |-> NoErr, r |-> [r EXCEPT !.dialer = "custom"]]

\* The loop over the options (resolver.go:51-53): what an option returns
\* is not looked at.
RECURSIVE ApplyOptions(_, _, _)
ApplyOptions(opts, i, r) ==
    IF i > Len(opts) THEN r
    ELSE ApplyOptions(opts, i + 1, ApplyOption(opts[i], r).r)

NewConnErrs == {NoErr, "failed to init private conn to system bus"}

\* NewResolver: newConn is what NewConn() returns when it is called.
NewResolver(opts, newConn) ==
    LET r == ApplyOptions(opts, 1, NilResolver) IN
    IF r.conn = "nil" /\ newConn # NoErr
    THEN [IdleRes EXCEPT !.op = "NewResolver", !.name = opts, !.err = newConn]
    ELSE [IdleRes EXCEPT !.op = "NewResolver", !.name = opts,
             !.val = [conn |-> IF r.conn = "nil" THEN "system" ELSE r.conn,
                      dialer |-> IF r.dialer = "nil" THEN "default" ELSE r.dialer]]

\* A nil typed record, and the typed record holding nothing.
NilRecord == <<>>
ZeroRecord(rrtype) == [type |-> rrtype, name |-> <<>>, pref |-> 0, txt |-> <<>>]

\* ResourceRecord.CNAME / MX / NS / SRV / TXT with their result: the typed
\* record, nil with an error.
DecodeTyped(r, rrtype) ==
    IF Decode(r, rrtype) # NoErr THEN [err |-> Decode(r, rrtype), rec |-> NilRecord]
    ELSE [err |-> NoErr,
          rec |-> [type |-> rrtype,
                   name |-> IF rrtype = "TXT" THEN <<>> ELSE UnpackDomainName(r.labels),
                   pref |-> r.pref, txt |-> r.txt]]

\* The operations as the callers issue them: the conn generation, the
\* context, the argument and what the service answers are inputs.
Ran(result, c, ctx) == [result EXCEPT !.conn = c, !.ctx = ctx]

DoNewResolver ==
    /\ res.op = "idle"
    /\ \E opts \in SeqsUpTo(Options, MaxOptions), newConn \in NewConnErrs :
          /\ res' = NewResolver(opts, newConn)
          /\ resolver' = IF res'.err # NoErr THEN resolver
                          ELSE [conn |-> res'.val.conn, open |-> TRUE]
    /\ UNCHANGED <<actVars, notVars, wdVars, logVars>>

DoDecode ==
    /\ res.op = "idle"
    /\ \E r \in RRs, rrtype \in RRTypes :
          res' = [IdleRes EXCEPT !.op = "Decode", !.name = rrtype, !.got = <<r>>,
                                 !.err = DecodeTyped(r, rrtype).err,
                                 !.val = DecodeTyped(r, rrtype).rec,
                                 !.decoded = 1]
    /\ UNCHANGED <<actVars, notVars, resolver, wdVars, logVars>>

DoConnMethod ==
    /\ res.op = "idle"
    /\ \E c \in Conns, ctx \in Contexts :
          \/ \E ans \in OnConn(resolver, RecordAnswers) :
                LET r == ResolveRecord(c, ctx, ans) IN
                res' = Ran([IdleRes EXCEPT !.op = "ResolveRecord", !.err = r.err,
                                           !.val = r.records, !.ncalls = r.n], c, ctx)
          \/ \E ans \in OnConn(resolver, ServiceAnswers) :
                LET r == ResolveService(c, ctx, ans) IN
                res' = Ran([IdleRes EXCEPT !.op = "ResolveService", !.err = r.err,
                                           !.val = r.srvData, !.ncalls = r.n], c, ctx)
          \/ \E ans \in OnConn(resolver, RegisterAnswers) :
                LET r == RegisterService(c, ctx, ans) IN
                res' = Ran([IdleRes EXCEPT !.op = "RegisterService", !.err = r.err,
                                           !.val = r.svcPath, !.ncalls = r.n], c, ctx)
          \/ \E ans \in OnConn(resolver, UnregisterAnswers) :
                LET r == UnregisterService(c, ctx, ans) IN
                res' = Ran([IdleRes EXCEPT !.op = "UnregisterService", !.err = r.err,
                                           !.ncalls = r.n], c, ctx)
    /\ UNCHANGED <<actVars, notVars, resolver, wdVars, logVars>>

DoLookupHost ==
    /\ res.op = "idle"
    /\ \E c \in Conns, ctx \in Contexts, host \in Names, ans \in OnConn(resolver, HostnameAnswers) :
          res' = Ran(LookupHost(c, ctx, host, ans), c, ctx)
    /\ UNCHANGED <<actVars, notVars, resolver, wdVars, logVars>>

DoLookupAddr ==
    /\ res.op = "idle"
    /\ \E c \in Conns, ctx \in Contexts, addr \in AddrTexts, ans \in OnConn(resolver, AddressAnswers) :
          res' = Ran(LookupAddr(c, ctx, addr, ans), c, ctx)
    /\ UNCHANGED <<actVars, notVars, resolver, wdVars, logVars>>

DoLookupIP ==
    /\ res.op = "idle"
    /\ \E c \in Conns, ctx \in Contexts, network \in Networks,
          host \in LookupHosts, ans \in OnConn(resolver, HostnameAnswers) :
          res' = [Ran(LookupIP(c, ctx, network, host, ans), c, ctx)
                     EXCEPT !.network = network]
    /\ UNCHANGED <<actVars, notVars, resolver, wdVars, logVars>>

DoDialContext ==
    /\ res.op = "idle"
    /\ \E c \in Conns, ctx \in Contexts, address \in DialAddrs,
          ans \in OnConn(resolver, HostnameAnswers), dialOK \in BOOLEAN :
          res' = [Ran(DialContext(c, ctx, "tcp", address, ans, dialOK), c, ctx)
                     EXCEPT !.network = "tcp"]
    /\ UNCHANGED <<actVars, notVars, resolver, wdVars, logVars>>

DoLookupCNAME ==
    /\ res.op = "idle"
    /\ \E c \in Conns, ctx \in Contexts, host \in Names, ans \in OnConn(resolver, RecordAnswers) :
          res' = Ran(LookupCNAME(c, ctx, host, ans), c, ctx)
    /\ UNCHANGED <<actVars, notVars, resolver, wdVars, logVars>>

DoLookupMX ==
    /\ res.op = "idle"
    /\ \E c \in Conns, ctx \in Contexts, name \in Names, ans \in OnConn(resolver, RecordAnswers) :
          res' = Ran(LookupMX(c, ctx, name, ans), c, ctx)
    /\ UNCHANGED <<actVars, notVars, resolver, wdVars, logVars>>

DoLookupNS ==
    /\ res.op = "idle"
    /\ \E c \in Conns, ctx \in Contexts, name \in Names, ans \in OnConn(resolver, RecordAnswers) :
          res' = Ran(LookupNS(c, ctx, name, ans), c, ctx)
    /\ UNCHANGED <<actVars, notVars, resolver, wdVars, logVars>>

DoLookupTXT ==
    /\ res.op = "idle"
    /\ \E c \in Conns, ctx \in Contexts, name \in Names, ans \in OnConn(resolver, RecordAnswers) :
          res' = Ran(LookupTXT(c, ctx, name, ans), c, ctx)
    /\ UNCHANGED <<actVars, notVars, resolver, wdVars, logVars>>

DoLookupSRV ==
    /\ res.op = "idle"
    /\ \E c \in Conns, ctx \in Contexts, name \in Names, ans \in OnConn(resolver, ServiceAnswers) :
          res' = Ran(LookupSRV(c, ctx, name, ans), c, ctx)
    /\ UNCHANGED <<actVars, notVars, resolver, wdVars, logVars>>

\* Resolver.Close with what closing the transport returns.
DoClose ==
    /\ res.op = "idle"
    /\ \E closeErr \in CloseErrs :
          /\ res' = [IdleRes EXCEPT !.op = "Close", !.err = closeErr]
          /\ resolver' = Close(resolver)
    /\ UNCHANGED <<actVars, notVars, wdVars, logVars>>

\* The caller takes the result; the resolver keeps nothing of it.
ResReturn ==
    /\ res.op # "idle"
    /\ res' = IdleRes
    /\ UNCHANGED <<actVars, notVars, resolver, wdVars, logVars>>

ResNext ==
    \/ DoNewResolver
    \/ DoDecode
    \/ DoConnMethod
    \/ DoLookupHost
    \/ DoLookupAddr
    \/ DoLookupIP
    \/ DoDialContext
    \/ DoLookupCNAME
    \/ DoLookupMX
    \/ DoLookupNS
    \/ DoLookupTXT
    \/ DoLookupSRV
    \/ DoClose
    \/ ResReturn

(***************************************************************************)
(* Watchdog (notify/notifier.go, watchdog.go)                              *)
(***************************************************************************)
\* The two generations of the watchdog controller: sysdwatchdog.New
\* (notify/notifier.go) and systemd.NewWatchdog (watchdog.go).
WatchdogVariants == {"sysdwatchdog", "systemd"}

WatchdogKeys == {"WATCHDOG_USEC", "WATCHDOG_PID"}

WatchdogUsecs == {"", "x", "-1", "0", "1", "2", "3", "4"}

WatchdogPids == {"", "x", "1", "2"}

WatchdogEnvInputs ==
    {[k \in WatchdogKeys |->
         [set |-> (IF k = "WATCHDOG_USEC" THEN u ELSE w) # "",
          val |-> IF k = "WATCHDOG_USEC" THEN u ELSE w]] :
        u \in WatchdogUsecs, w \in WatchdogPids}

\* time.Microsecond, in nanoseconds, the unit of time.Duration.
Microsecond == 1000

\* Faulty variant of getWatchDogInterval: WATCHDOG_PID is not looked at.
getWatchDogIntervalAnyPid(e, p) ==
    LET wusec == Getenv(e, "WATCHDOG_USEC")
        wusecTyped == Atoi(wusec)
    IN  IF wusec = "" \/ ~wusecTyped.ok \/ wusecTyped.n <= 0
        THEN [interval |-> 0, err |-> "watchdog not usable"]
        ELSE [interval |-> wusecTyped.n * Microsecond, err |-> NoErr]

\* getWatchDogInterval (notify/notifier.go:126-158); p is os.Getpid().
getWatchDogInterval(e, p) ==
    LET wusec == Getenv(e, "WATCHDOG_USEC")
        wusecTyped == Atoi(wusec)
        interval == wusecTyped.n * Microsecond
        wpid == Getenv(e, "WATCHDOG_PID")
        wpidTyped == Atoi(wpid)
    IN  IF wusec = ""
        THEN [interval |-> 0,
              err |-> "watchdog does not seem to be enabled: WATCHDOG_USEC env unset"]
        ELSE IF ~wusecTyped.ok
        THEN [interval |-> 0, err |-> "can't convert WATCHDOG_USEC as int"]
        ELSE IF wusecTyped.n <= 0
        THEN [interval |-> 0, err |-> "WATCHDOG_USEC must be a positive number"]
        ELSE IF wpid = ""
        THEN [interval |-> interval, err |-> NoErr]
        ELSE IF ~wpidTyped.ok
        THEN [interval |-> interval, err |-> "can't convert WATCHDOG_PID as int"]
        ELSE IF p # wpidTyped.n
        THEN [interval |-> interval, err |-> "we are not the watched PID"]
        ELSE [interval |-> interval, err |-> NoErr]

\* daemon.SdWatchdogEnabled(false) of coreos/go-systemd, which
\* NewWatchdog calls (watchdog.go:24): a zero interval with no error when
\* the watchdog is not set up for this process.
SdWatchdogEnabled(e, p) ==
    LET wusec == Getenv(e, "WATCHDOG_USEC")
        s == Atoi(wusec)
        wpid == Getenv(e, "WATCHDOG_PID")
        q == Atoi(wpid)
    IN  IF wusec = "" THEN [interval |-> 0, err |-> NoErr]
        ELSE IF ~s.ok THEN [interval |-> 0, err |-> "error converting WATCHDOG_USEC"]
        ELSE IF s.n <= 0 THEN [interval |-> 0, err |-> "error WATCHDOG_USEC must be a positive number"]
        ELSE IF wpid = "" THEN [interval |-> s.n * Microsecond, err |-> NoErr]
        ELSE IF ~q.ok THEN [interval |-> 0, err |-> "error converting WATCHDOG_PID"]
        ELSE IF p # q.n THEN [interval |-> 0, err |-> NoErr]
        ELSE [interval |-> s.n * Microsecond, err |-> NoErr]

\* No controller: what the caller holds before New and when New returns nil.
NilWatchDog ==
    [op |-> "start", made |-> FALSE, interval |-> 0, checks |-> 0,
     err |-> NoErr, out |-> 0]

\* sysdwatchdog.New (notify/notifier.go:111-124).
New(e, p) ==
    LET r == getWatchDogInterval(e, p) IN
    IF r.err # NoErr
    THEN [NilWatchDog EXCEPT !.op = "New", !.err = r.err]
    ELSE [NilWatchDog EXCEPT !.op = "New", !.made = TRUE,
                             !.interval = r.interval,
                             !.checks = r.interval \div 2]

\* systemd.NewWatchdog (watchdog.go:22-33).
NewWatchdog(e, p) ==
    LET r == SdWatchdogEnabled(e, p) IN
    IF r.err # NoErr
    THEN [NilWatchDog EXCEPT !.op = "New", !.err = "initialization went wrong"]
    ELSE IF r.interval = 0
    THEN [NilWatchDog EXCEPT !.op = "New"]
    ELSE [NilWatchDog EXCEPT !.op = "New", !.made = TRUE,
                             !.interval = r.interval,
                             !.checks = r.interval \div 3]

WatchdogNew ==
    /\ wd.op = "start"
    /\ wd' = IF wdVariant = "sysdwatchdog" THEN New(watchdogEnv, pid)
             ELSE NewWatchdog(watchdogEnv, pid)
    /\ UNCHANGED <<wdVariant, watchdogEnv, actVars, notVars, resVars, logVars>>

\* GetChecksDuration (notify/notifier.go:170-172, watchdog.go:42-44).
GetChecksDuration(c) == c.checks

\* GetLimitDuration (notify/notifier.go:175-177, watchdog.go:47-49).
GetLimitDuration(c) == c.interval

\* NewTicker: the period handed to time.NewTicker
\* (notify/notifier.go:181-183, watchdog.go:53-55).
NewTicker(c) == c.checks

WatchdogGetChecksDuration ==
    /\ wd.made
    /\ wd' = [wd EXCEPT !.op = "GetChecksDuration", !.out = GetChecksDuration(wd)]
    /\ UNCHANGED <<wdVariant, watchdogEnv, actVars, notVars, resVars, logVars>>

WatchdogGetLimitDuration ==
    /\ wd.made
    /\ wd' = [wd EXCEPT !.op = "GetLimitDuration", !.out = GetLimitDuration(wd)]
    /\ UNCHANGED <<wdVariant, watchdogEnv, actVars, notVars, resVars, logVars>>

WatchdogNewTicker ==
    /\ wd.made
    /\ wd' = [wd EXCEPT !.op = "NewTicker", !.out = NewTicker(wd)]
    /\ UNCHANGED <<wdVariant, watchdogEnv, actVars, notVars, resVars, logVars>>

WdNext ==
    \/ WatchdogNew
    \/ WatchdogGetChecksDuration
    \/ WatchdogGetLimitDuration
    \/ WatchdogNewTicker

(***************************************************************************)
(* journald slog handler (journald/slog/handler.go)                        *)
(***************************************************************************)
\* The three generations of NewHandler: with slog.HandlerOptions
\* (handler.go:83-132), with the package's own Options and a source
\* format, and with a bare level (handler.go:233-277).
HandlerVariants == {"handleroptions", "options", "leveler"}

LevelDebug == 0 - 4
LevelInfo == 0
LevelNotice == 2
LevelWarning == 4
LevelError == 8
LevelCritical == 10
LevelAlert == 12
LevelEmergency == 14

\* The record levels the inputs range over.
Levels == (0 - 5) .. 15

TimeKey == "time"
LevelKey == "level"
SourceKey == "source"
MessageKey == "msg"

\* slog.Attr: a key and a value of some kind; level is the slog.Level a
\* value of kind Level holds, text what a value of kind String holds.
Attr(key, kind, level, text) ==
    [key |-> key, kind |-> kind, level |-> level, text |-> text]

\* slog.Attr{}, which a handler leaves out of its output.
EmptyAttr == Attr("", "Zero", 0, <<>>)

\* The attributes slog itself hands to ReplaceAttr, always outside groups.
BuiltinAttrs ==
    {Attr(TimeKey, "Time", 0, <<>>), Attr(MessageKey, "String", 0, <<"m">>),
     Attr(SourceKey, "Source", 0, <<>>)}
    \cup {Attr(LevelKey, "Level", l, <<>>) : l \in Levels}

\* Attributes of the caller's log call: any key with any kind of value.
UserAttrs ==
    {Attr(k, kind, 0, IF kind = "String" THEN <<"v">> ELSE <<>>) :
        k \in {TimeKey, LevelKey, SourceKey, MessageKey, "k"},
        kind \in {"String", "Int64", "Time", "Source"}}
    \cup {Attr(k, "Level", l, <<>>) : k \in {LevelKey, "k"}, l \in Levels}

GroupPaths == {<<>>, <<"g">>}

\* opts.ReplaceAttr: nil, or a function of the caller that replaces the
\* value by a fixed text.
UserReplacers == {"nil", "redact"}

\* str (handler.go:134-139): the base name, with the signed distance to
\* the base level when there is one.
str(base, val) ==
    IF val = 0 THEN <<base>>
    ELSE <<base, IF val > 0 THEN "+" \o ToString(val) ELSE ToString(val)>>

\* The key and value the level switch chooses (handler.go:96-121, 246-271):
\* journald's priority prefix in front of the level key.
LevelAttr(v, level) ==
    LET pick(prefix, base, from) ==
            Attr(prefix \o LevelKey, "String", 0,
                 IF v = "leveler" THEN <<base>> ELSE str(base, level - from))
    IN  IF level < LevelInfo THEN pick("DebugPrefix+", "DEBUG", LevelDebug)
        ELSE IF level < LevelNotice THEN pick("InfoPrefix+", "INFO", LevelInfo)
        ELSE IF level < LevelWarning THEN pick("NoticePrefix+", "NOTICE", LevelNotice)
        ELSE IF level < LevelError THEN pick("WarningPrefix+", "WARNING", LevelWarning)
        ELSE IF level < LevelCritical THEN pick("ErrPrefix+", "ERROR", LevelError)
        ELSE IF level < LevelAlert THEN pick("CritPrefix+", "CRITICAL", LevelCritical)
        ELSE IF level < LevelEmergency THEN pick("AlertPrefix+", "ALERT", LevelAlert)
        ELSE pick("EmergPrefix+", "EMERGENCY", LevelEmergency)

\* What the caller's own ReplaceAttr returns.
UserReplace(replacer, a) ==
    IF replacer = "redact" THEN Attr(a.key, "String", 0, <<"***">>) ELSE a

\* The ReplaceAttr function NewHandler installs (handler.go:87-130,
\* 237-275): the attribute it returns, or the panic of a failed type
\* assertion.
ReplaceAttr(v, replacer, groups, a) ==
    IF a.key = TimeKey THEN [panic |-> FALSE, attr |-> EmptyAttr]
    ELSE IF a.key = LevelKey
    THEN IF a.kind # "Level" THEN [panic |-> TRUE, attr |-> EmptyAttr]
         ELSE [panic |-> FALSE, attr |-> LevelAttr(v, a.level)]
    ELSE IF a.key = SourceKey /\ v = "options"
    THEN IF a.kind # "Source" THEN [panic |-> TRUE, attr |-> EmptyAttr]
         ELSE [panic |-> FALSE, attr |-> Attr(a.key, "String", 0, <<"dir/file:1">>)]
    ELSE IF v # "leveler" /\ replacer # "nil"
    THEN [panic |-> FALSE, attr |-> UserReplace(replacer, a)]
    ELSE [panic |-> FALSE, attr |-> a]

\* No attribute has been handed to the handler.
NoLogged ==
    [op |-> "idle", user |-> FALSE, groups |-> <<>>, replacer |-> "nil",
     in |-> EmptyAttr, out |-> EmptyAttr, panic |-> FALSE]

\* The text handler hands one attribute of a record to ReplaceAttr.
HandlerReplaceAttr ==
    /\ logged.op = "idle"
    /\ \E user \in BOOLEAN, replacer \in UserReplacers :
       \E a \in (IF user THEN UserAttrs ELSE BuiltinAttrs),
          groups \in (IF user THEN GroupPaths ELSE {<<>>}) :
          LET r == ReplaceAttr(logVariant, replacer, groups, a) IN
          logged' = [op |-> "ReplaceAttr", user |-> user, groups |-> groups,
                     replacer |-> replacer, in |-> a, out |-> r.attr,
                     panic |-> r.panic]
    /\ UNCHANGED <<logVariant, actVars, notVars, resVars, wdVars>>

HandlerReturn ==
    /\ logged.op = "ReplaceAttr"
    /\ ~logged.panic
    /\ logged' = NoLogged
    /\ UNCHANGED <<logVariant, actVars, notVars, resVars, wdVars>>

LogNext ==
    \/ HandlerReplaceAttr
    \/ HandlerReturn

(***************************************************************************)
(* Specifications: each component runs with the others at rest.            *)
(***************************************************************************)
ActivationInitial ==
    /\ pid \in Pids
    /\ startEnv \in EnvInputs
    /\ env = startEnv
    /\ phase = "start"
    /\ initErr = NoErr
    /\ listeners = <<>>
    /\ files = <<>>
    /\ orphans = {}
    /\ call = [c \in Callers |-> IdleCall]
    /\ variant = "notifyraw"
    /\ notifyEnv = [set |-> FALSE, val |-> ""]
    /\ notifyPhase = "start"
    /\ socket = NilSocket
    /\ lastNotify = NoNotify
    /\ res = IdleRes
    /\ resolver = [conn |-> "system", open |-> TRUE]
    /\ wdVariant = "sysdwatchdog"
    /\ watchdogEnv = [k \in WatchdogKeys |-> [set |-> FALSE, val |-> ""]]
    /\ wd = NilWatchDog
    /\ logVariant = "handleroptions"
    /\ logged = NoLogged

NotifyInitial ==
    /\ pid \in {p \in Pids : \A q \in Pids : p <= q}
    /\ startEnv = [k \in EnvKeys |-> [set |-> FALSE, val |-> EmptyVal(k)]]
    /\ env = startEnv
    /\ phase = "start"
    /\ initErr = NoErr
    /\ listeners = <<>>
    /\ files = <<>>
    /\ orphans = {}
    /\ call = [c \in Callers |-> IdleCall]
    /\ variant \in Variants
    /\ notifyEnv \in NotifyEnvInputs
    /\ notifyPhase = "start"
    /\ socket = NilSocket
    /\ lastNotify = NoNotify
    /\ res = IdleRes
    /\ resolver = [conn |-> "system", open |-> TRUE]
    /\ wdVariant = "sysdwatchdog"
    /\ watchdogEnv = [k \in WatchdogKeys |-> [set |-> FALSE, val |-> ""]]
    /\ wd = NilWatchDog
    /\ logVariant = "handleroptions"
    /\ logged = NoLogged

ResolverInitial ==
    /\ pid \in {p \in Pids : \A q \in Pids : p <= q}
    /\ startEnv = [k \in EnvKeys |-> [set |-> FALSE, val |-> EmptyVal(k)]]
    /\ env = startEnv
    /\ phase = "start"
    /\ initErr = NoErr
    /\ listeners = <<>>
    /\ files = <<>>
    /\ orphans = {}
    /\ call = [c \in Callers |-> IdleCall]
    /\ variant = "notifyraw"
    /\ notifyEnv = [set |-> FALSE, val |-> ""]
    /\ notifyPhase = "start"
    /\ socket = NilSocket
    /\ lastNotify = NoNotify
    /\ res = IdleRes
    /\ resolver = [conn |-> "system", open |-> TRUE]
    /\ wdVariant = "sysdwatchdog"
    /\ watchdogEnv = [k \in WatchdogKeys |-> [set |-> FALSE, val |-> ""]]
    /\ wd = NilWatchDog
    /\ logVariant = "handleroptions"
    /\ logged = NoLogged

WatchdogInitial ==
    /\ pid \in Pids
    /\ startEnv = [k \in EnvKeys |-> [set |-> FALSE, val |-> EmptyVal(k)]]
    /\ env = startEnv
    /\ phase = "start"
    /\ initErr = NoErr
    /\ listeners = <<>>
    /\ files = <<>>
    /\ orphans = {}
    /\ call = [c \in Callers |-> IdleCall]
    /\ variant = "notifyraw"
    /\ notifyEnv = [set |-> FALSE, val |-> ""]
    /\ notifyPhase = "start"
    /\ socket = NilSocket
    /\ lastNotify = NoNotify
    /\ res = IdleRes
    /\ resolver = [conn |-> "system", open |-> TRUE]
    /\ wdVariant \in WatchdogVariants
    /\ watchdogEnv \in WatchdogEnvInputs
    /\ wd = NilWatchDog
    /\ logVariant = "handleroptions"
    /\ logged = NoLogged

HandlerInitial ==
    /\ pid \in {p \in Pids : \A q \in Pids : p <= q}
    /\ startEnv = [k \in EnvKeys |-> [set |-> FALSE, val |-> EmptyVal(k)]]
    /\ env = startEnv
    /\ phase = "start"
    /\ initErr = NoErr
    /\ listeners = <<>>
    /\ files = <<>>
    /\ orphans = {}
    /\ call = [c \in Callers |-> IdleCall]
    /\ variant = "notifyraw"
    /\ notifyEnv = [set |-> FALSE, val |-> ""]
    /\ notifyPhase = "start"
    /\ socket = NilSocket
    /\ lastNotify = NoNotify
    /\ res = IdleRes
    /\ resolver = [conn |-> "system", open |-> TRUE]
    /\ wdVariant = "sysdwatchdog"
    /\ watchdogEnv = [k \in WatchdogKeys |-> [set |-> FALSE, val |-> ""]]
    /\ wd = NilWatchDog
    /\ logVariant \in HandlerVariants
    /\ logged = NoLogged

ActivationSpec == ActivationInitial /\ [][ActNext]_vars

NotifySpec == NotifyInitial /\ [][NotNext]_vars

ResolverSpec == ResolverInitial /\ [][ResNext]_vars

WatchdogSpec == WatchdogInitial /\ [][WdNext]_vars

HandlerSpec == HandlerInitial /\ [][LogNext]_vars

(***************************************************************************)
(* Properties: activation                                                  *)
(***************************************************************************)
Parses(l) == SplitHostPort(l.addr).ok

PortOf(l) == SplitHostPort(l.addr).port

\* The service manager advertised a descriptor count for this process.
Advertised ==
    /\ startEnv.LISTEN_PID.set
    /\ Atoi(startEnv.LISTEN_PID.val).ok
    /\ Atoi(startEnv.LISTEN_PID.val).n = pid
    /\ startEnv.LISTEN_FDS.set
    /\ Atoi(startEnv.LISTEN_FDS.val).ok
    /\ Atoi(startEnv.LISTEN_FDS.val).n >= 0

AdvertisedCount == Atoi(startEnv.LISTEN_FDS.val).n

WrapFailed ==
    initErr \in {"failed to init new file listener", "failed to close file"}

\* Table indexes whose bound address has the port of caller c's address.
Matches(c) ==
    {i \in 1..Len(listeners) : Parses(listeners[i]) /\ PortOf(listeners[i]) = call[c].port}

Unparsable == {i \in 1..Len(listeners) : ~Parses(listeners[i])}

Least(S) == CHOOSE i \in S : \A j \in S : i <= j

Finished(c) == call[c].pc = "done" /\ call[c].kind # "badaddr"

\* C1 as stated: with LISTEN_PID matching, LISTEN_FDS = N >= 0 and every
\* descriptor wrapped, the table holds the N listeners in descriptor order
\* and every one of them is what Listen returns for the port of its address.
C1_EveryListenerReturned ==
    (phase = "ready" /\ Advertised /\ ~WrapFailed) =>
        /\ initErr = NoErr
        /\ Len(listeners) = AdvertisedCount
        /\ \A i \in 1..Len(listeners) : listeners[i].fd = listenFdsStart + i - 1
        /\ \A c \in Callers : \A i \in Matches(c) :
              Finished(c) => (call[c].kind = "found" /\ call[c].l = listeners[i])

\* C1 amended: with LISTEN_PID matching, LISTEN_FDS = N >= 0 and every
\* descriptor wrapped and closed, the table holds exactly N listeners, one
\* per descriptor in descriptor order, and a listener is what Listen
\* returns for the port of its address when every listener before it in
\* the table has a host:port address with another port.
C1_TableInDescriptorOrder ==
    (phase = "ready" /\ Advertised /\ ~WrapFailed) =>
        /\ initErr = NoErr
        /\ Len(listeners) = AdvertisedCount
        /\ \A i \in 1..Len(listeners) : listeners[i].fd = listenFdsStart + i - 1
        /\ \A c \in Callers : \A i \in Matches(c) :
              (Finished(c) /\ \A j \in 1..(i - 1) :
                    Parses(listeners[j]) /\ PortOf(listeners[j]) # call[c].port)
                 => (call[c].kind = "found" /\ call[c].l = listeners[i])

\* C1 witness: two descriptors were advertised and wrapped, and a Listen
\* call got the listener of the second one.
C1_Witness ==
    /\ phase = "ready" /\ Advertised /\ ~WrapFailed
    /\ AdvertisedCount = Len(listeners) /\ Len(listeners) >= 2
    /\ \E c \in Callers : Finished(c) /\ call[c].kind = "found"
                            /\ call[c].l = listeners[Len(listeners)]

\* Activation is unavailable: a required variable is missing or LISTEN_PID
\* is not this process.
Unavailable ==
    \/ ~startEnv.LISTEN_PID.set
    \/ ~startEnv.LISTEN_FDS.set
    \/ ~Atoi(startEnv.LISTEN_PID.val).ok
    \/ Atoi(startEnv.LISTEN_PID.val).n # pid

\* C2 as stated: when a required variable is missing or LISTEN_PID is not
\* this process, initialization ends without panic with an empty table and
\* every later Listen call returns a not-found error.
C2_AlwaysNotFound ==
    Unavailable =>
        /\ phase # "panic"
        /\ phase = "ready" =>
              /\ listeners = <<>>
              /\ \A c \in Callers : call[c].pc = "done" => call[c].kind = "notfound"

\* C2 amended: when a required variable is missing or LISTEN_PID is not
\* this process, initialization ends without panic with an empty table;
\* every later Listen call with a well-formed address returns a not-found
\* error and one with a malformed address returns a parse error.
C2_DisabledTableEmpty ==
    Unavailable =>
        /\ phase # "panic"
        /\ phase = "ready" =>
              /\ listeners = <<>>
              /\ initErr # NoErr
              /\ \A c \in Callers : call[c].pc = "done" =>
                    /\ call[c].l = NoListener
                    /\ call[c].kind =
                          IF SplitHostPort(call[c].addr).ok THEN "notfound" ELSE "badaddr"

\* C2 witness: LISTEN_PID names another process, and a Listen call with a
\* well-formed address has returned.
C2_Witness ==
    /\ startEnv.LISTEN_PID.set /\ startEnv.LISTEN_FDS.set
    /\ Atoi(startEnv.LISTEN_PID.val).ok /\ Atoi(startEnv.LISTEN_PID.val).n # pid
    /\ Atoi(startEnv.LISTEN_FDS.val).ok /\ Atoi(startEnv.LISTEN_FDS.val).n > 0
    /\ phase = "ready"
    /\ \E c \in Callers : call[c].pc = "done" /\ call[c].kind = "notfound"

\* C3 as stated: once initialization has run, LISTEN_PID, LISTEN_FDS and
\* LISTEN_FDNAMES are all unset, whatever the outcome.
C3_EnvCleared ==
    phase = "ready" => \A k \in EnvKeys : ~LookupEnv(env, k)

C5_TableReadOnly ==
    /\ [][phase = "ready" => listeners' = listeners]_vars
    /\ [](\A c \in Callers : call[c].pc = "done" =>
              [kind |-> call[c].kind, l |-> call[c].l] = Listen(listeners, call[c].addr))

\* C5 witness: one caller is inside the loop of Listen while another has
\* been handed a listener.
C5_Witness ==
    \E c, d \in Callers :
        /\ c # d
        /\ call[c].pc = "scan" /\ call[c].idx > 1
        /\ call[d].pc = "done" /\ call[d].kind = "found"

(***************************************************************************)
(* Properties: notify                                                      *)
(***************************************************************************)
\* C6 as stated: with NOTIFY_SOCKET unset or empty at process start, every
\* package-level notify call opens no socket, sends nothing and returns nil.
C6_NoopWithoutSocket ==
    (notifyPhase = "ready" /\ NotifyGetenv(notifyEnv) = "" /\ lastNotify # NoNotify) =>
        /\ ~lastNotify.dialed
        /\ ~lastNotify.sent
        /\ lastNotify.err = NoErr

\* C7 as stated: IsNotifyEnabled() is true exactly when NOTIFY_SOCKET was
\* set to a non-empty value at package initialization, and then the stored
\* address has that value as name and network unixgram.
C7_EnabledIffSocketSet ==
    notifyPhase = "ready" =>
        /\ IsNotifyEnabled(socket) <=> NotifyGetenv(notifyEnv) # ""
        /\ IsNotifyEnabled(socket) =>
              socket.Name = NotifyGetenv(notifyEnv) /\ socket.Net = "unixgram"

(***************************************************************************)
(* Properties: resolver                                                    *)
(***************************************************************************)
NameLookups == {"LookupHost", "LookupCNAME", "LookupMX", "LookupNS", "LookupTXT"}

\* C8: LookupHost, LookupCNAME, LookupMX, LookupNS and LookupTXT called with
\* an empty name return a not-found error carrying the queried name and
\* issue no remote call.
C8_EmptyNameNotFound ==
    (res.op \in NameLookups /\ res.name = <<>>) =>
        /\ res.err = "no such host"
        /\ res.notFound
        /\ res.errName = res.name
        /\ res.ncalls = 0
        /\ res.val = <<>>

\* C8 witness: LookupCNAME has returned for the empty host.
C8_Witness == res.op = "LookupCNAME" /\ res.name = <<>>

\* C9 as stated: whatever MX records the service returns, in any order, the
\* list LookupMX returns is non-decreasing in preference.
C9_MXByPreference ==
    (res.op = "LookupMX" /\ res.err = NoErr) =>
        \A i, j \in 1..Len(res.val) : i < j => res.val[i].Pref <= res.val[j].Pref

IsPermutation(a, b) ==
    /\ Len(a) = Len(b)
    /\ \E f \in [1..Len(a) -> 1..Len(a)] :
          /\ \A i, j \in 1..Len(a) : i # j => f[i] # f[j]
          /\ \A i \in 1..Len(a) : a[i] = b[f[i]]

\* C10: whatever service records the service returns, in any order, the
\* list LookupSRV returns holds those records, non-decreasing in priority.
C10_SRVByPriority ==
    (res.op = "LookupSRV" /\ res.err = NoErr) =>
        /\ \A i, j \in 1..Len(res.val) :
              i < j => res.val[i].Priority <= res.val[j].Priority
        /\ IsPermutation(res.val, SRVsOf(res.got))

\* C10 witness: the service answered with the higher priority value first.
C10_Witness ==
    /\ res.op = "LookupSRV" /\ res.err = NoErr
    /\ Len(res.got) >= 2
    /\ res.got[1].Priority > res.got[2].Priority

\* C11: each typed decoder (CNAME, MX, NS, SRV, TXT) applied to a record
\* whose data parses as a record of another type returns an error and a nil
\* record, never a typed record holding nothing; data that does not parse
\* at all returns an error and a nil record too.
C11_DecodeWrongTypeFails ==
    res.op = "Decode" =>
        LET r == res.got[1] IN
        (r.wire = "bad" \/ r.wire # res.name) =>
            /\ res.err # NoErr
            /\ res.val = NilRecord
            /\ res.val # ZeroRecord(res.name)

\* C11 witness: the MX decoder has been applied to a CNAME record.
C11_Witness ==
    /\ res.op = "Decode" /\ res.name = "MX"
    /\ res.got[1].wire = "CNAME"
    /\ res.err = "not an MX record type"

\* C12: LookupIP with network "ip4" returns only IPv4 addresses (never a
\* 16-byte IPv6 address) and with network "ip6" only IPv6 addresses,
\* whatever mix of families the service answers with; a network other than
\* ip, ip4 and ip6 yields a bad-network error.
C12_LookupIPFamily ==
    res.op = "LookupIP" =>
        /\ res.network \notin {"ip", "ip4", "ip6"} =>
              /\ res.err = "unknown network"
              /\ res.val = <<>>
              /\ res.ncalls = 0
        /\ res.network = "ip4" =>
              \A i \in 1..Len(res.val) :
                  Len(res.val[i]) # 16 /\ To4(res.val[i]) # NilIP
        /\ res.network = "ip6" =>
              \A i \in 1..Len(res.val) :
                  Len(res.val[i]) = 16 /\ To4(res.val[i]) = NilIP

\* C12 witness: an IPv4-only request was answered with an IPv6 address
\* ahead of an IPv4 address, and LookupIP returned addresses.
C12_Witness ==
    /\ res.op = "LookupIP" /\ res.network = "ip4" /\ res.err = NoErr
    /\ Len(res.got) >= 2
    /\ Len(res.got[1]) = 16 /\ Len(res.got[2]) = 4
    /\ res.val # <<>>

\* The operations of the resolver that take a context and are in the source.
ContextOps ==
    {"LookupHost", "LookupAddr", "LookupCNAME", "LookupMX", "LookupNS",
     "LookupTXT", "DialContext"}

RecordLookups == {"LookupCNAME", "LookupMX", "LookupNS", "LookupTXT"}

\* The argument of the operation in res passes the checks the operation
\* makes before it turns to the service.
ValidInput ==
    CASE res.op \in {"LookupHost", "LookupCNAME"} -> res.name # <<>>
      [] res.op \in {"LookupMX", "LookupNS", "LookupTXT"} -> isDomainName(res.name)
      [] res.op = "LookupAddr" -> ParseIP(res.name) # NilIP
      [] res.op = "DialContext" -> SplitHostPort(res.name).ok
      [] OTHER -> TRUE

\* The method the operation in res rests on is one the conn issues on the bus.
Implemented == ~(res.conn = "stub" /\ res.op \in RecordLookups)

\* C13 as stated: a lookup or DialContext call issued with an already
\* cancelled context returns a cancellation error with no result, decodes
\* no record and does not dial.
C13_CancelledReturnsCtxError ==
    (res.op \in ContextOps /\ Implemented /\ res.ctx = "cancelled") =>
        /\ res.err = "context canceled"
        /\ res.val = <<>>
        /\ res.decoded = 0
        /\ res.dialed = <<>>

\* C13, amended: a lookup or DialContext call issued with an already
\* cancelled context and an argument that passes the operation's own checks
\* returns the cancellation error of its one remote call with no result,
\* decodes no record and does not dial; with an argument that fails the
\* checks it returns the error of the check and issues no remote call.
C13_CancelledAfterValidation ==
    (res.op \in ContextOps /\ Implemented /\ res.ctx = "cancelled") =>
        /\ res.val = <<>>
        /\ res.got = <<>>
        /\ res.decoded = 0
        /\ res.dialed = <<>>
        /\ ValidInput => res.err = "context canceled" /\ res.ncalls = 1
        /\ ~ValidInput =>
              /\ res.ncalls = 0
              /\ res.err \in {"no such host", "unrecognized address",
                              "missing port in address"}

\* C13 witness: DialContext was called for host:port with a cancelled
\* context and returned the cancellation error.
C13_Witness ==
    /\ res.op = "DialContext" /\ res.ctx = "cancelled"
    /\ SplitHostPort(res.name).ok
    /\ res.err = "context canceled"

\* Indexes of the IPv6 and of the IPv4 addresses of the answer in res.
V6At == {i \in 1..Len(res.got) : To4(res.got[i]) = NilIP}
V4At == {i \in 1..Len(res.got) : To4(res.got[i]) # NilIP}

\* DialContext got an answer and went on to dial.
Dialing == res.op = "DialContext" /\ res.err \in {NoErr, "dial failed"}

\* C14: DialContext resolves the host of its host:port argument with one
\* call; when the answer holds at least one IPv6 and at least one IPv4
\* address, in any order, it dials the first IPv6 address of the answer, in
\* brackets, on the given port; when the answer holds only IPv4 addresses
\* it dials one of them on the given port.
C14_DialPrefersIPv6 ==
    Dialing =>
        /\ res.ncalls = 1
        /\ (V6At # {} /\ V4At # {}) =>
              res.dialed = <<"[" \o IPString(res.got[Least(V6At)]) \o "]", ":",
                             SplitHostPort(res.name).port>>
        /\ (V6At = {} /\ V4At # {}) =>
              \E i \in V4At :
                  res.dialed = <<IPString(res.got[i]), ":", SplitHostPort(res.name).port>>

\* C14 witness: the answer held an IPv4 address ahead of an IPv6 address
\* and DialContext dialed.
C14_Witness ==
    /\ Dialing
    /\ Len(res.got) >= 2
    /\ To4(res.got[1]) # NilIP /\ To4(res.got[2]) = NilIP
    /\ res.dialed = <<"[2001:db8::1]", ":", "80">>

EndsWithDot(s) == Len(s) > 0 /\ s[Len(s)] = "."

\* C15: every hostname LookupAddr returns ends with exactly the dot it
\* needs: the name of the answer with a dot appended when it had none, the
\* name itself when it ended with a dot already, so that normalizing the
\* result again changes nothing; the list has the length and the order of
\* the answer.
C15_AddrNamesFullyQualified ==
    (res.op = "LookupAddr" /\ res.err = NoErr) =>
        /\ Len(res.val) = Len(res.got)
        /\ \A i \in 1..Len(res.val) :
              /\ EndsWithDot(res.got[i]) => res.val[i] = res.got[i]
              /\ ~EndsWithDot(res.got[i]) => res.val[i] = res.got[i] \o <<".">>
              /\ EndsWithDot(res.val[i])
              /\ fullyQualified(res.val[i]) = res.val[i]

\* C15 witness: the answer held a name without a final dot and a name with
\* one.
C15_Witness ==
    /\ res.op = "LookupAddr" /\ res.err = NoErr
    /\ Len(res.got) >= 2
    /\ ~EndsWithDot(res.got[1]) /\ EndsWithDot(res.got[2])

\* What the service answered to the LookupCNAME call in res; the service
\* resolves a name and the same name with a final dot alike, so this is
\* also its answer to the call with the other form of the name.
SameAnswer ==
    [err |-> IF res.err \in RemoteErrs \cup {ErrClosed} THEN res.err ELSE NoErr,
     records |-> res.got]

\* The LookupCNAME call for the name of res with a final dot added.
DottedTwin == LookupCNAME(res.conn, res.ctx, res.name \o <<".">>, SameAnswer)

C17_HostOneTextPerAddress ==
    (res.op = "LookupHost" /\ res.err = NoErr) =>
        /\ Len(res.val) = Len(res.got)
        /\ \A i \in 1..Len(res.got) : res.val[i] = IPString(res.got[i])
        /\ res.got = <<<<192, 0, 2, 1>>>> => res.val = <<"192.0.2.1">>
        /\ \A i \in 1..Len(res.got) :
              res.got[i] = <<192, 0, 2, 2>> => res.val[i] = "192.0.2.2"

\* C17 witness: the answer was the one address 192.0.2.1.
C17_Witness ==
    /\ res.op = "LookupHost" /\ res.err = NoErr
    /\ res.got = <<<<192, 0, 2, 1>>>>
    /\ res.val = <<"192.0.2.1">>

\* The lookups that are in the source.
SourceLookups == ContextOps \ {"DialContext"}

\* The errors a call on the bus ends with.
CallErrs == (RemoteErrs \ {NoErr}) \cup {"context canceled"}

\* C18: every lookup whose argument passes the lookup's checks issues
\* exactly one call on the connection, whatever lookups ran before it: no
\* earlier result stands in for the call, and a failed call is not issued
\* again but its error is returned at once, with no result. (The lookups
\* are taken on a connection that implements their method.)
C18_OneCallPerLookup ==
    (res.op \in SourceLookups /\ Implemented /\ ValidInput) =>
        /\ res.ncalls = 1
        /\ res.err \in CallErrs =>
              /\ res.val = <<>>
              /\ res.got = <<>>
              /\ res.decoded = 0

\* C18 witness: the one call of LookupNS failed and LookupNS returned its
\* error.
C18_Witness ==
    /\ res.op = "LookupNS" /\ res.ctx = "live" /\ res.conn = "dbus"
    /\ res.err = "remote call failed"
    /\ res.ncalls = 1

\* The errors the options of the NewResolver call in res reported.
OptionErrs ==
    {ApplyOption(res.name[i], NilResolver).err : i \in 1..Len(res.name)} \ {NoErr}

\* C19 as stated: no error of the resolver is swallowed; when an option
\* passed to NewResolver reports an error (WithConn(nil), WithDialer(nil)),
\* NewResolver returns that error and no resolver.
C19_OptionErrorReturned ==
    (res.op = "NewResolver" /\ OptionErrs # {}) =>
        /\ res.err \in OptionErrs
        /\ res.val = <<>>

\* The methods the "stub" generation of Conn leaves unimplemented.
StubMethods ==
    {"ResolveRecord", "ResolveService", "RegisterService", "UnregisterService"}

\* C20 as stated: in the generation where they are unimplemented,
\* ResolveRecord, ResolveService, RegisterService and UnregisterService
\* always return the not-supported error and issue no remote call, and
\* every lookup built on them (LookupCNAME, LookupMX, LookupNS, LookupTXT)
\* returns that error, never an empty list without error.
C20_NotSupported ==
    res.conn = "stub" =>
        /\ res.op \in StubMethods =>
              res.err = errNotSupported /\ res.ncalls = 0 /\ res.val = <<>>
        /\ res.op \in RecordLookups =>
              res.err = errNotSupported /\ res.ncalls = 0 /\ res.val = <<>>

\* C20, amended: in that generation the four methods always return the
\* not-supported error, an error no other failure and no success carries,
\* and issue no remote call; LookupCNAME, LookupMX, LookupNS and LookupTXT
\* return that error, with no result, when their argument passes their own
\* check, and the not-found error of the check when it does not.
C20_NotSupportedAfterValidation ==
    res.conn = "stub" =>
        /\ res.op \in StubMethods =>
              /\ res.err = errNotSupported /\ res.ncalls = 0 /\ res.val = <<>>
              /\ errNotSupported \notin RemoteErrs \cup CallErrs
        /\ res.op \in RecordLookups =>
              /\ res.ncalls = 0 /\ res.val = <<>> /\ res.decoded = 0
              /\ ValidInput => res.err = errNotSupported /\ ~res.notFound
              /\ ~ValidInput => res.err = "no such host" /\ res.notFound

\* C20 witness: LookupMX was called with a valid name on the generation
\* that leaves ResolveRecord unimplemented.
C20_Witness ==
    /\ res.op = "LookupMX" /\ res.conn = "stub"
    /\ isDomainName(res.name)
    /\ res.err = errNotSupported

(***************************************************************************)
(* Properties: resolver, name syntax                                       *)
(***************************************************************************)
\* The ASCII-compatible encoding of the label made of the one letter
\* U+00E9: xn--9ca.
ACELabel == <<"x", "n", "-", "-", "9", "c", "a">>

\* The name with every label that is the one letter U+00E9 replaced by its
\* ASCII-compatible encoding; label is the label read so far.
RECURSIVE ToASCIIFrom(_, _, _)
ToASCIIFrom(name, i, label) ==
    LET done == IF label = <<"U+00E9">> THEN ACELabel ELSE label IN
    IF i > Len(name) THEN done
    ELSE IF name[i] = "." THEN done \o <<".">> \o ToASCIIFrom(name, i + 1, <<>>)
    ELSE ToASCIIFrom(name, i + 1, Append(label, name[i]))

ToASCII(name) == ToASCIIFrom(name, 1, <<>>)

\* C21 as stated: LookupMX, LookupNS and LookupTXT accept a name when it
\* satisfies domain-name syntax, or when it is an internationalized name
\* whose ASCII-compatible encoding does; a name that fails both is rejected
\* with a not-found error and no remote call.
C21_IDNConverted ==
    res.op \in {"LookupMX", "LookupNS", "LookupTXT"} =>
        LET accepted == isDomainName(res.name) \/ isDomainName(ToASCII(res.name)) IN
        /\ accepted => ~(res.notFound /\ res.ncalls = 0)
        /\ ~accepted =>
              res.notFound /\ res.err = "no such host" /\ res.ncalls = 0

(***************************************************************************)
(* Properties: resolver, connection                                        *)
(***************************************************************************)
\* The operations that are neither the construction nor the closing of a
\* resolver.
ConnUsers ==
    {"Decode", "ResolveRecord", "ResolveService", "RegisterService",
     "UnregisterService", "LookupHost", "LookupAddr", "LookupIP",
     "DialContext", "LookupCNAME", "LookupMX", "LookupNS", "LookupTXT",
     "LookupSRV"}

\* C22: from NewResolver to Close a resolver works on one connection. No
\* lookup and no dial closes it, puts another in its place or opens it
\* again; Close closes it and leaves it in place; and a connection that is
\* closed stays closed until NewResolver builds a resolver anew.
C22_OneConnection ==
    [][/\ res'.op \in ConnUsers \cup {"idle"} => resolver' = resolver
       /\ res'.op = "Close" =>
             resolver'.conn = resolver.conn /\ ~resolver'.open
       /\ (~resolver.open /\ resolver'.open) => res'.op = "NewResolver"]_vars

\* A lookup was issued on a resolver whose connection Close had closed: it
\* ended with the closed connection's error, and the connection is still
\* closed.
C22_Witness ==
    /\ res.op = "LookupMX"
    /\ ~resolver.open
    /\ res.ncalls = 1
    /\ res.err = ErrClosed

(***************************************************************************)
(* Properties: watchdog                                                    *)
(***************************************************************************)
\* C23 as stated: for every positive limit the check interval of a
\* controller, as GetChecksDuration returns it and as NewTicker uses it
\* for its period, is one third of the limit GetLimitDuration returns.
C23_ChecksOneThird ==
    (wd.made /\ GetLimitDuration(wd) > 0) =>
        /\ GetChecksDuration(wd) = GetLimitDuration(wd) \div 3
        /\ NewTicker(wd) = GetLimitDuration(wd) \div 3
        /\ wd.op \in {"GetChecksDuration", "NewTicker"} =>
              wd.out = GetLimitDuration(wd) \div 3

\* The decimal texts of the positive integers.
IsPositiveInteger(s) == \E n \in 1..9 : ToString(n) = s

\* WATCHDOG_USEC and WATCHDOG_PID, as set for the process, make the
\* watchdog usable by it.
WatchdogUsable ==
    /\ watchdogEnv["WATCHDOG_USEC"].set
    /\ IsPositiveInteger(watchdogEnv["WATCHDOG_USEC"].val)
    /\ \/ ~watchdogEnv["WATCHDOG_PID"].set
       \/ watchdogEnv["WATCHDOG_PID"].val = ""
       \/ watchdogEnv["WATCHDOG_PID"].val = ToString(pid)

\* C24: sysdwatchdog.New returns a controller and no error exactly when
\* WATCHDOG_USEC is a positive integer and WATCHDOG_PID is unset, empty or
\* the process's own id; in every other case it returns no controller and
\* an error.
C24_NewExactlyWhenUsable ==
    (wdVariant = "sysdwatchdog" /\ wd.op # "start") =>
        /\ WatchdogUsable => wd.made /\ wd.err = NoErr
        /\ ~WatchdogUsable => ~wd.made /\ wd.err # NoErr

\* New has returned a controller to the process WATCHDOG_PID names.
C24_Witness ==
    /\ wdVariant = "sysdwatchdog"
    /\ wd.op = "New"
    /\ wd.made
    /\ watchdogEnv["WATCHDOG_PID"].val = ToString(pid)

(***************************************************************************)
(* Properties: activation, descriptors                                     *)
(***************************************************************************)
\* The colon-separated entries of LISTEN_FDNAMES as the service manager
\* set it; one empty entry when it is unset or empty.
AdvertisedNames == Split(Getenv(startEnv, "LISTEN_FDNAMES"))

\* C25: the descriptor at offset i from the first inherited descriptor is
\* named by the i-th entry of LISTEN_FDNAMES when that entry exists and is
\* not empty, and LISTEN_FD_<fd> otherwise: when LISTEN_FDNAMES is absent,
\* has fewer entries than there are descriptors, or has an empty entry.
C25_NamedByOffset ==
    phase = "ready" =>
        \A j \in 1..Len(files) :
            LET offset == files[j].fd - listenFdsStart IN
            /\ offset = j - 1
            /\ files[j].name =
                  IF offset < Len(AdvertisedNames) /\ AdvertisedNames[offset + 1] # ""
                  THEN AdvertisedNames[offset + 1]
                  ELSE "LISTEN_FD_" \o ToString(files[j].fd)

\* Two descriptors were inherited with LISTEN_FDNAMES=":b": the first
\* entry is empty and the first descriptor has the default name, the
\* second has the name of its entry.
C25_Witness ==
    /\ phase = "ready"
    /\ startEnv.LISTEN_FDNAMES.val = <<":", "b">>
    /\ Len(files) = 2
    /\ files[1].name = "LISTEN_FD_3"
    /\ files[2].name = "b"

\* LISTEN_PID names this process.
PidMatches ==
    /\ startEnv.LISTEN_PID.set
    /\ Atoi(startEnv.LISTEN_PID.val).ok
    /\ Atoi(startEnv.LISTEN_PID.val).n = pid

\* C26 as stated: with LISTEN_PID naming this process, initialization
\* never panics, whatever integer LISTEN_FDS holds, zero and negative
\* values included, and ends with a table that is empty for a count that
\* is not positive.
C26_InitNeverPanics ==
    (PidMatches /\ startEnv.LISTEN_FDS.set /\ Atoi(startEnv.LISTEN_FDS.val).ok) =>
        /\ phase # "panic"
        /\ (phase = "ready" /\ Atoi(startEnv.LISTEN_FDS.val).n <= 0) =>
              listeners = <<>>

\* C27 as stated: when activationListeners has returned, every file handle
\* getFiles created is closed and no listener is open outside the table,
\* also when wrapping a descriptor or closing a handle failed.
C27_NoLeak ==
    phase = "ready" =>
        /\ \A j \in 1..Len(files) : files[j].state = "closed"
        /\ orphans = {}

(***************************************************************************)
(* Properties: resolver, dial target and decode failures                   *)
(***************************************************************************)
\* C28 as stated: whenever DialContext reaches the dialer, the address it
\* dials is an IP address of the answer (an IPv6 address in brackets)
\* followed by the port of the argument; with an answer that holds no
\* address nothing built from the unresolved argument is dialed.
C28_DialsResolvedAddress ==
    (Dialing /\ res.dialed # <<>>) =>
        \E i \in 1..Len(res.got) :
            res.dialed \in
                {<<IPString(res.got[i]), ":", SplitHostPort(res.name).port>>,
                 <<"[" \o IPString(res.got[i]) \o "]", ":",
                   SplitHostPort(res.name).port>>}

\* The record type a lookup decodes its answer as.
TypeOf(op) ==
    IF op = "LookupMX" THEN "MX"
    ELSE IF op = "LookupNS" THEN "NS"
    ELSE IF op = "LookupTXT" THEN "TXT"
    ELSE "CNAME"

ListLookups == {"LookupMX", "LookupNS", "LookupTXT"}

\* The lookup sent its call and the service answered it with res.got.
Answered == res.ncalls = 1 /\ res.err \notin CallErrs \cup {ErrClosed}

\* The errors a decoder can give.
DecodeErrs == {Decode(r, t) : r \in RRs, t \in RRTypes} \ {NoErr}

\* Indexes of the records of the answer that do not decode as rrtype.
FailingAt(rrtype) ==
    {i \in 1..Len(res.got) : Decode(res.got[i], rrtype) # NoErr}

C30_RewritingSafe ==
    logged.op = "ReplaceAttr" =>
        /\ ~logged.panic
        /\ logged.out = EmptyAttr =>
              (~logged.user /\ logged.in.key = TimeKey)

====
